---- MODULE Spec2Model ----
(***************************************************************************)
(* VoteChain backend (server/routes.ts over server/dbStorage.ts and the    *)
(* tables of shared/schema.ts): the vote-casting pipeline, the hash-chain  *)
(* ledger and the authentication gate, as a state machine.  Every storage  *)
(* call (one awaited SQL statement) is one atomic step; the synchronous    *)
(* code that follows an await up to the next await belongs to that step.   *)
(***************************************************************************)
EXTENDS Integers, Sequences, FiniteSets, TLC

VARIABLES users, elections, votes, blocks, now, reqs, calls, queries, boot, mining

vars == <<users, elections, votes, blocks, now, reqs, calls, queries, boot, mining>>

(***************************************************************************)
(* Bounds of the model.                                                    *)
(***************************************************************************)
MaxReqs == 2
MaxTime == 1
MaxCalls == 2
MaxQueries == 1

(***************************************************************************)
(* Program constants.                                                      *)
(***************************************************************************)
DefaultDifficulty == 2
HexBase == 16

(* An absent value (undefined, null, an empty result set) is the empty      *)
(* sequence and a present one is a one-element sequence.                   *)
None == <<>>

Some(x) == <<x>>

(* No call of mineBlock is on the stack.                                    *)
NotMining == [pc |-> "idle"]

(* The literal string "0": one hex character, the digest of no payload.    *)
GenesisPreviousHash == [hex |-> <<0>>, of |-> <<>>]

UserIds == {"u1", "u2"}
Candidates == {"candidate-1", "candidate-2"}
ReqIds == 1..MaxReqs
CallIds == 1..MaxCalls
QueryIds == 1..MaxQueries

(***************************************************************************)
(* Election ids a request may name: the seeded active election, a stored   *)
(* election whose isActive is false, an id of no stored election, and the  *)
(* empty string, which voteSchema rejects.                                 *)
(***************************************************************************)
ActiveElection == "e-active"
InactiveElection == "e-closed"
UnknownElection == "e-unknown"
EmptyId == ""
RequestElectionIds == {ActiveElection, InactiveElection, UnknownElection, EmptyId}

(***************************************************************************)
(* Bearer tokens: jwt.sign({userId}, JWT_SECRET, 24h) stamps the payload   *)
(* with the time of issue.  A request carries a signed and unexpired       *)
(* token, a string jwt.verify rejects, or none.  Token(u) is the token     *)
(* signed for u at time 0.                                                 *)
(***************************************************************************)
TokenIssuedAt(u, t) == [userId |-> u, verifies |-> TRUE, iat |-> t]

Token(u) == TokenIssuedAt(u, 0)

BadToken == [userId |-> "u1", verifies |-> FALSE, iat |-> 0]

(***************************************************************************)
(* A slot of the authentication endpoints (register, login, setup-totp,    *)
(* verify-totp, enroll-face, verify-face): the handler's position, its     *)
(* input and locals, and the response it sent.  A slot is taken again once *)
(* its response is out.                                                    *)
(***************************************************************************)
IdleCall ==
    [op |-> "idle", pc |-> "idle", username |-> "", password |-> "", totpCode |-> None,
     secret |-> None, faceDescriptor |-> None, user |-> None, response |-> None]

(***************************************************************************)
(* Small numeric codes of the identifiers, used by the digest below.       *)
(***************************************************************************)
UserNum(u) == IF u = "u1" THEN 1 ELSE 2

ElectionNum(e) == IF e = ActiveElection THEN 1 ELSE IF e = InactiveElection THEN 2 ELSE 3

CandidateNum(c) == IF c = "candidate-1" THEN 1 ELSE 2

(***************************************************************************)
(* calculateHash: the SHA-256 hex digest of JSON.stringify(data).  The     *)
(* serialised payload is the tuple of the fields in construction order     *)
(* <<userId, electionId, candidateId, timestamp, previousHash, nonce>>.    *)
(* A digest is modelled by its two leading hex characters, a deterministic *)
(* mix of every serialised field, followed by the payload itself, so that  *)
(* two digests are equal exactly when the serialised payloads are equal    *)
(* (collision freedom of SHA-256).                                         *)
(***************************************************************************)
PrevNum(previousHash) == IF previousHash = GenesisPreviousHash THEN 0 ELSE (previousHash.of[6] % 5) + 1

LeadingByte(data) ==
    (UserNum(data[1]) + 2 * ElectionNum(data[2]) + 3 * CandidateNum(data[3])
       + 5 * data[4] + 7 * PrevNum(data[5]) + (HexBase * HexBase - 1) * data[6]) % (HexBase * HexBase)

calculateHash(data) ==
    [hex |-> <<LeadingByte(data) \div HexBase, LeadingByte(data) % HexBase>>, of |-> data]

Serialize(voteData, previousHash, nonce) ==
    <<voteData.userId, voteData.electionId, voteData.candidateId, voteData.timestamp, previousHash, nonce>>

(* hash.substring(0, difficulty) and Array(difficulty + 1).join("0")       *)
Substring(hash, difficulty) == SubSeq(hash.hex, 1, difficulty)

Target(difficulty) == [i \in 1..difficulty |-> 0]

(***************************************************************************)
(* mineBlock: do { nonce++; hash = calculateHash(...) } while the leading  *)
(* characters differ from the target.  mineLoop(.., nonce) is the loop     *)
(* entered with the counter at nonce.                                      *)
(***************************************************************************)
RECURSIVE mineLoop(_, _, _, _)
mineLoop(data, previousHash, difficulty, nonce) ==
    LET n == nonce + 1
        hash == calculateHash(Serialize(data, previousHash, n))
    IN  IF Substring(hash, difficulty) # Target(difficulty)
        THEN mineLoop(data, previousHash, difficulty, n)
        ELSE [hash |-> hash, nonce |-> n]

(* Mutant of mineBlock: the first trial is returned whatever its digest.    *)
mineBlockFirstTrial(data, previousHash, difficulty) ==
    [hash |-> calculateHash(Serialize(data, previousHash, 1)), nonce |-> 1]

mineBlock(data, previousHash, difficulty) == mineLoop(data, previousHash, difficulty, 0)

(***************************************************************************)
(* DatabaseStorage: the tables are users and elections (rows by primary    *)
(* key) and votes and blocks (rows in insertion order).                    *)
(***************************************************************************)
getUser(id) == IF id \in DOMAIN users THEN Some(users[id]) ELSE None

getElection(id) == IF id \in DOMAIN elections THEN Some(elections[id]) ELSE None

getVotes(electionId) == SelectSeq(votes, LAMBDA v : v.electionId = electionId)

getUserVote(userId, electionId) ==
    LET result == SelectSeq(votes, LAMBDA v : v.userId = userId /\ v.electionId = electionId)
    IN  IF Len(result) > 0 THEN Some(result[1]) ELSE None

(* Mutant of getLatestBlock: the order is ascending, not descending.        *)
getLatestBlockAscending ==
    IF Len(blocks) = 0 THEN None
    ELSE Some(CHOOSE b \in {blocks[i] : i \in 1..Len(blocks)} :
                \A i \in 1..Len(blocks) : blocks[i].blockNumber >= b.blockNumber)

getLatestBlock ==
    IF Len(blocks) = 0 THEN None
    ELSE Some(CHOOSE b \in {blocks[i] : i \in 1..Len(blocks)} :
                \A i \in 1..Len(blocks) : blocks[i].blockNumber <= b.blockNumber)

(* createVote: the row inserted, with a fresh id and the storage's own     *)
(* new Date().                                                             *)
NewVote(vote) ==
    [id |-> Len(votes) + 1, userId |-> vote.userId, electionId |-> vote.electionId,
     candidateId |-> vote.candidateId, blockHash |-> vote.blockHash,
     previousHash |-> vote.previousHash, nonce |-> vote.nonce, timestamp |-> now]

(* Mutant of InsertVote: an insert that replaces the user's earlier vote   *)
(* in the election (on conflict do update).                                *)
UpsertVote(newVote) ==
    IF \E i \in 1..Len(votes) : votes[i].userId = newVote.userId /\ votes[i].electionId = newVote.electionId
    THEN [i \in 1..Len(votes) |->
            IF votes[i].userId = newVote.userId /\ votes[i].electionId = newVote.electionId
            THEN newVote ELSE votes[i]]
    ELSE Append(votes, newVote)

(* db.insert(votes).values(newVote): the table with the row added.         *)
InsertVote(newVote) == Append(votes, newVote)

(* votes: user_id and election_id reference users and elections; no       *)
(* column besides the primary key is unique.                               *)
VoteInsertAccepted(newVote) ==
    newVote.userId \in DOMAIN users /\ newVote.electionId \in DOMAIN elections

NewBlock(block) ==
    [id |-> Len(blocks) + 1, blockNumber |-> block.blockNumber, hash |-> block.hash,
     previousHash |-> block.previousHash, votes |-> block.votes, nonce |-> block.nonce,
     timestamp |-> now]

(* Mutant of BlockInsertAccepted: a table without the unique constraints.  *)
BlockInsertUnconstrained(newBlock) == TRUE

(* voting_blocks: block_number and hash are declared unique().             *)
BlockInsertAccepted(newBlock) ==
    \A i \in 1..Len(blocks) :
        /\ blocks[i].blockNumber # newBlock.blockNumber
        /\ blocks[i].hash # newBlock.hash

(***************************************************************************)
(* Responses.  kind is the taxonomy name of the outcome; the handler sends *)
(* the status with a message, and blockHash and blockNumber on success.    *)
(***************************************************************************)
Failure(status, kind) == [status |-> status, kind |-> kind, blockHash |-> None, blockNumber |-> 0]

VoteRecorded(hash, blockNumber) ==
    [status |-> 200, kind |-> "VoteRecorded", blockHash |-> Some(hash), blockNumber |-> blockNumber]

(***************************************************************************)
(* A request slot of POST /api/vote: the position of the handler, the      *)
(* bearer token of its authorization header and its local variables.       *)
(***************************************************************************)
IdleRequest ==
    [pc |-> "idle", token |-> None, user |-> None, electionId |-> EmptyId, candidateId |-> EmptyId,
     latestBlock |-> None, voteData |-> None, mined |-> None, vote |-> None,
     response |-> None]

Respond(req, response) == [req EXCEPT !.pc = "done", !.response = Some(response)]

(***************************************************************************)
(* authenticateToken: 401 without a token, 403 when jwt.verify throws,     *)
(* 401 when the token's user id has no row; otherwise req.user is the row. *)
(***************************************************************************)
(* Mutant of authenticateToken: a token issued before now is refused.       *)
authenticateTokenFreshOnly(token) ==
    IF token = None THEN [ok |-> FALSE, user |-> None, response |-> Some(Failure(401, "AccessTokenMissing"))]
    ELSE IF ~token[1].verifies \/ token[1].iat < now
    THEN [ok |-> FALSE, user |-> None, response |-> Some(Failure(403, "TokenInvalidOrExpired"))]
    ELSE IF getUser(token[1].userId) = None
    THEN [ok |-> FALSE, user |-> None, response |-> Some(Failure(401, "InvalidToken"))]
    ELSE [ok |-> TRUE, user |-> getUser(token[1].userId), response |-> None]

(* Mutant of authenticateToken: the token is decoded, not verified.         *)
authenticateTokenDecodesOnly(token) ==
    IF token = None THEN [ok |-> FALSE, user |-> None, response |-> Some(Failure(401, "AccessTokenMissing"))]
    ELSE IF getUser(token[1].userId) = None
    THEN [ok |-> FALSE, user |-> None, response |-> Some(Failure(401, "InvalidToken"))]
    ELSE [ok |-> TRUE, user |-> getUser(token[1].userId), response |-> None]

authenticateToken(token) ==
    IF token = None THEN [ok |-> FALSE, user |-> None, response |-> Some(Failure(401, "AccessTokenMissing"))]
    ELSE IF ~token[1].verifies
    THEN [ok |-> FALSE, user |-> None, response |-> Some(Failure(403, "TokenInvalidOrExpired"))]
    ELSE IF getUser(token[1].userId) = None
    THEN [ok |-> FALSE, user |-> None, response |-> Some(Failure(401, "InvalidToken"))]
    ELSE [ok |-> TRUE, user |-> getUser(token[1].userId), response |-> None]

(* voteSchema: electionId and candidateId are strings of length >= 1.      *)
voteSchemaAccepts(electionId, candidateId) == electionId # EmptyId /\ candidateId # EmptyId

(* Mutant of VoteEnter: the two factor gates are missing.                  *)
VoteEnterWithoutFactorGates(req, token, electionId, candidateId) ==
    LET auth == authenticateToken(token)
        arrived == [req EXCEPT !.token = token]
        parsed == [arrived EXCEPT !.user = auth.user, !.electionId = electionId, !.candidateId = candidateId]
    IN  IF ~auth.ok THEN Respond(arrived, auth.response[1])
        ELSE IF ~voteSchemaAccepts(electionId, candidateId)
        THEN Respond([arrived EXCEPT !.user = auth.user], Failure(400, "ValidationError"))
        ELSE [parsed EXCEPT !.pc = "getElection"]

(***************************************************************************)
(* POST /api/vote, from the arrival of the request to its first storage    *)
(* call: the middleware's getUser, voteSchema.parse, and the two factor    *)
(* gates, which read req.user.                                             *)
(***************************************************************************)
VoteEnter(req, token, electionId, candidateId) ==
    LET auth == authenticateToken(token)
        user == auth.user[1]
        arrived == [req EXCEPT !.token = token]
        parsed == [arrived EXCEPT !.user = auth.user, !.electionId = electionId, !.candidateId = candidateId]
    IN  IF ~auth.ok THEN Respond(arrived, auth.response[1])
        ELSE IF ~voteSchemaAccepts(electionId, candidateId)
        THEN Respond([arrived EXCEPT !.user = auth.user], Failure(400, "ValidationError"))
        ELSE IF ~user.totpEnabled THEN Respond(parsed, Failure(403, "TotpRequired"))
        ELSE IF ~user.faceEnabled THEN Respond(parsed, Failure(403, "FaceRequired"))
        ELSE [parsed EXCEPT !.pc = "getElection"]

(* Slots are taken in order: slot r is used once the slots below it are.   *)
NextFreeSlot(r) == reqs[r].pc = "idle" /\ \A q \in ReqIds : q < r => reqs[q].pc # "idle"

CastVote(r, token, electionId, candidateId) ==
    /\ NextFreeSlot(r)
    /\ reqs' = [reqs EXCEPT ![r] = VoteEnter(reqs[r], token, electionId, candidateId)]
    /\ UNCHANGED <<users, elections, votes, blocks, now, calls, queries, boot, mining>>

(* Mutant of VoteAfterGetElection: the election must also be in its       *)
(* window of start and end dates.                                          *)
VoteAfterGetElectionChecksDates(req, election) ==
    IF election = None THEN Respond(req, Failure(404, "ElectionNotFound"))
    ELSE IF ~election[1].isActive \/ now < election[1].startDate \/ now > election[1].endDate
    THEN Respond(req, Failure(400, "ElectionInactive"))
    ELSE [req EXCEPT !.pc = "getUserVote"]

(* Mutant of VoteAfterGetElection: the candidate must be on the list.       *)
VoteAfterGetElectionChecksCandidate(req, election) ==
    IF election = None THEN Respond(req, Failure(404, "ElectionNotFound"))
    ELSE IF ~election[1].isActive THEN Respond(req, Failure(400, "ElectionInactive"))
    ELSE IF req.candidateId \notin election[1].candidates THEN Respond(req, Failure(400, "InvalidCandidate"))
    ELSE [req EXCEPT !.pc = "getUserVote"]

(* Mutant of VoteAfterGetElection: isActive is not looked at.               *)
VoteAfterGetElectionActiveUnchecked(req, election) ==
    IF election = None THEN Respond(req, Failure(404, "ElectionNotFound"))
    ELSE [req EXCEPT !.pc = "getUserVote"]

(* await storage.getElection(electionId), then the two election gates.     *)
VoteAfterGetElection(req, election) ==
    IF election = None THEN Respond(req, Failure(404, "ElectionNotFound"))
    ELSE IF ~election[1].isActive THEN Respond(req, Failure(400, "ElectionInactive"))
    ELSE [req EXCEPT !.pc = "getUserVote"]

VoteGetElection(r) ==
    /\ reqs[r].pc = "getElection"
    /\ reqs' = [reqs EXCEPT ![r] = VoteAfterGetElection(reqs[r], getElection(reqs[r].electionId))]
    /\ UNCHANGED <<users, elections, votes, blocks, now, calls, queries, boot, mining>>

(* Mutant of VoteAfterGetUserVote: the duplicate answer lacks its return.   *)
VoteAfterGetUserVoteAnswersAndGoesOn(req, existingVote) ==
    IF existingVote # None
    THEN [req EXCEPT !.pc = "getLatestBlock", !.response = Some(Failure(400, "DuplicateVote"))]
    ELSE [req EXCEPT !.pc = "getLatestBlock"]

(* Mutant of VoteAfterGetUserVote: the existing vote is not looked at.      *)
VoteAfterGetUserVoteUnchecked(req, existingVote) == [req EXCEPT !.pc = "getLatestBlock"]

(* await storage.getUserVote(user.id, electionId), then the duplicate gate *)
VoteAfterGetUserVote(req, existingVote) ==
    IF existingVote # None THEN Respond(req, Failure(400, "DuplicateVote"))
    ELSE [req EXCEPT !.pc = "getLatestBlock"]

VoteGetUserVote(r) ==
    /\ reqs[r].pc = "getUserVote"
    /\ reqs' = [reqs EXCEPT ![r] =
                  VoteAfterGetUserVote(reqs[r], getUserVote(reqs[r].user[1].id, reqs[r].electionId))]
    /\ UNCHANGED <<users, elections, votes, blocks, now, calls, queries, boot, mining>>

(***************************************************************************)
(* await storage.getLatestBlock(), then previousHash, voteData with the    *)
(* handler's new Date(), and mineBlock with the default difficulty.        *)
(***************************************************************************)
(* Mutant of PreviousHashOf: the latest block's hash is not carried over.   *)
PreviousHashAlwaysGenesis(latestBlock) == GenesisPreviousHash

PreviousHashOf(latestBlock) == IF latestBlock # None THEN latestBlock[1].hash ELSE GenesisPreviousHash

VoteData(req, timestamp) ==
    [userId |-> req.user[1].id, electionId |-> req.electionId,
     candidateId |-> req.candidateId, timestamp |-> timestamp]

VoteAfterGetLatestBlock(req, latestBlock, timestamp) ==
    LET voteData == VoteData(req, timestamp)
    IN  [req EXCEPT !.pc = "createVote",
                    !.latestBlock = latestBlock,
                    !.voteData = Some(voteData),
                    !.mined = Some(mineBlock(voteData, PreviousHashOf(latestBlock), DefaultDifficulty))]

VoteGetLatestBlock(r) ==
    /\ reqs[r].pc = "getLatestBlock"
    /\ reqs' = [reqs EXCEPT ![r] = VoteAfterGetLatestBlock(reqs[r], getLatestBlock, now)]
    /\ UNCHANGED <<users, elections, votes, blocks, now, calls, queries, boot, mining>>

(* The argument of storage.createVote: no timestamp is passed.             *)
VoteToCreate(req) ==
    [userId |-> req.user[1].id, electionId |-> req.electionId, candidateId |-> req.candidateId,
     blockHash |-> req.mined[1].hash, previousHash |-> PreviousHashOf(req.latestBlock),
     nonce |-> req.mined[1].nonce]

(* await storage.createVote(...): the insert, or the catch block's 400.    *)
VoteCreateVote(r) ==
    /\ reqs[r].pc = "createVote"
    /\ LET newVote == NewVote(VoteToCreate(reqs[r]))
       IN  IF VoteInsertAccepted(newVote)
           THEN /\ votes' = InsertVote(newVote)
                /\ reqs' = [reqs EXCEPT ![r] = [reqs[r] EXCEPT !.pc = "createBlock", !.vote = Some(newVote)]]
           ELSE /\ votes' = votes
                /\ reqs' = [reqs EXCEPT ![r] = Respond(reqs[r], Failure(400, "StoreError"))]
    /\ UNCHANGED <<users, elections, blocks, now, calls, queries, boot, mining>>

(* Mutant of NextBlockNumber: the successor skips a number.                 *)
NextBlockNumberSkipsOne(latestBlock) == IF latestBlock # None THEN latestBlock[1].blockNumber + 2 ELSE 1

(* The argument of storage.createBlock.                                    *)
NextBlockNumber(latestBlock) == IF latestBlock # None THEN latestBlock[1].blockNumber + 1 ELSE 1

BlockToCreate(req) ==
    [blockNumber |-> NextBlockNumber(req.latestBlock), hash |-> req.mined[1].hash,
     previousHash |-> PreviousHashOf(req.latestBlock), votes |-> <<req.vote[1]>>,
     nonce |-> req.mined[1].nonce]

(* await storage.createBlock(...), then res.json, or the catch block's 400 *)
(* when the insert violates a unique constraint.                           *)
VoteCreateBlock(r) ==
    /\ reqs[r].pc = "createBlock"
    /\ LET newBlock == NewBlock(BlockToCreate(reqs[r]))
       IN  IF BlockInsertAccepted(newBlock)
           THEN /\ blocks' = Append(blocks, newBlock)
                /\ reqs' = [reqs EXCEPT ![r] =
                              Respond(reqs[r], VoteRecorded(newBlock.hash, newBlock.blockNumber))]
           ELSE /\ blocks' = blocks
                /\ reqs' = [reqs EXCEPT ![r] = Respond(reqs[r], Failure(400, "StoreError"))]
    /\ UNCHANGED <<users, elections, votes, now, calls, queries, boot, mining>>

(* The clock the new Date() calls read.                                    *)
Tick ==
    /\ now < MaxTime
    /\ now' = now + 1
    /\ UNCHANGED <<users, elections, votes, blocks, reqs, calls, queries, boot, mining>>

(***************************************************************************)
(* GET /api/results/:electionId.  A slot holds the handler's position, its *)
(* locals (the rows getVotes returned and the map reduced from them) and   *)
(* the response.                                                           *)
(***************************************************************************)
IdleQuery ==
    [pc |-> "idle", electionId |-> EmptyId, election |-> None, votes |-> <<>>,
     results |-> <<>>, response |-> None]

QueryFailure(status, kind) ==
    [status |-> status, kind |-> kind, election |-> None, results |-> <<>>,
     totalVotes |-> 0, totalBlocks |-> 0, lastBlockHash |-> None]

(* getBlocks: the rows ordered by block_number.                            *)
RECURSIVE SortedByBlockNumber(_)
SortedByBlockNumber(rows) ==
    IF rows = {} THEN <<>>
    ELSE LET first == CHOOSE b \in rows : \A a \in rows : b.blockNumber <= a.blockNumber
         IN  <<first>> \o SortedByBlockNumber(rows \ {first})

getBlocks == SortedByBlockNumber({blocks[i] : i \in 1..Len(blocks)})

(* Mutant of reduceVotes: the count is set, not incremented.               *)
RECURSIVE reduceVotesSetsOne(_, _)
reduceVotesSetsOne(rows, acc) ==
    IF rows = <<>> THEN acc
    ELSE LET c == Head(rows).candidateId
         IN  reduceVotesSetsOne(Tail(rows), [x \in DOMAIN acc \cup {c} |-> IF x = c THEN 1 ELSE acc[x]])

(* votes.reduce((acc, vote) => { acc[vote.candidateId] =                    *)
(*   (acc[vote.candidateId] || 0) + 1; return acc }, {})                   *)
RECURSIVE reduceVotes(_, _)
reduceVotes(rows, acc) ==
    IF rows = <<>> THEN acc
    ELSE LET c == Head(rows).candidateId
             count == IF c \in DOMAIN acc THEN acc[c] ELSE 0
         IN  reduceVotes(Tail(rows), [x \in DOMAIN acc \cup {c} |-> IF x = c THEN count + 1 ELSE acc[x]])

(* blocks[blocks.length - 1]?.hash || null                                 *)
LastBlockHash(rows) == IF Len(rows) > 0 THEN Some(rows[Len(rows)].hash) ELSE None

ResultsResponse(query, rows) ==
    [status |-> 200, kind |-> "Results", election |-> query.election, results |-> query.results,
     totalVotes |-> Len(query.votes), totalBlocks |-> Len(rows), lastBlockHash |-> LastBlockHash(rows)]

(* The response goes out and the handler's locals are gone.                *)
QueryRespond(query, response) ==
    [IdleQuery EXCEPT !.pc = "done", !.electionId = query.electionId, !.response = Some(response)]

ResultsEnter(query, token, electionId) ==
    LET auth == authenticateToken(token)
    IN  IF ~auth.ok
        THEN QueryRespond(query, QueryFailure(auth.response[1].status, auth.response[1].kind))
        ELSE [query EXCEPT !.pc = "getElection", !.electionId = electionId]

NextFreeQuery(q) == queries[q].pc = "idle" /\ \A p \in QueryIds : p < q => queries[p].pc # "idle"

GetResults(q, token, electionId) ==
    /\ NextFreeQuery(q)
    /\ queries' = [queries EXCEPT ![q] = ResultsEnter(queries[q], token, electionId)]
    /\ UNCHANGED <<users, elections, votes, blocks, now, reqs, calls, boot, mining>>

ResultsAfterGetElection(query, election) ==
    IF election = None THEN QueryRespond(query, QueryFailure(404, "ElectionNotFound"))
    ELSE [query EXCEPT !.pc = "getVotes", !.election = election]

ResultsGetElection(q) ==
    /\ queries[q].pc = "getElection"
    /\ queries' = [queries EXCEPT ![q] = ResultsAfterGetElection(queries[q], getElection(queries[q].electionId))]
    /\ UNCHANGED <<users, elections, votes, blocks, now, reqs, calls, boot, mining>>

ResultsAfterGetVotes(query, rows) ==
    [query EXCEPT !.pc = "getBlocks", !.votes = rows, !.results = reduceVotes(rows, <<>>)]

ResultsGetVotes(q) ==
    /\ queries[q].pc = "getVotes"
    /\ queries' = [queries EXCEPT ![q] = ResultsAfterGetVotes(queries[q], getVotes(queries[q].electionId))]
    /\ UNCHANGED <<users, elections, votes, blocks, now, reqs, calls, boot, mining>>

ResultsGetBlocks(q) ==
    /\ queries[q].pc = "getBlocks"
    /\ queries' = [queries EXCEPT ![q] = QueryRespond(queries[q], ResultsResponse(queries[q], getBlocks))]
    /\ UNCHANGED <<users, elections, votes, blocks, now, reqs, calls, boot, mining>>

(***************************************************************************)
(* The store before any vote is cast.  A user row as createUser writes it  *)
(* and as TOTP verification and face enrolment leave it; the seed election *)
(* of initializeIfEmpty and a closed election beside it.                   *)
(***************************************************************************)
UsernameOf(id) == IF id = "u1" THEN "alice" ELSE "bob"

UserRow(id, totpSecret, totpEnabled, faceDescriptor, faceEnabled) ==
    [id |-> id, username |-> UsernameOf(id), password |-> [bcrypt |-> "pw-right"],
     totpSecret |-> totpSecret, totpEnabled |-> totpEnabled,
     faceDescriptor |-> faceDescriptor, faceEnabled |-> faceEnabled]

EnrolledDescriptor == <<0, 0>>

FactorRows(id) ==
    {UserRow(id, None, FALSE, None, FALSE),
     UserRow(id, Some("S1"), TRUE, None, FALSE),
     UserRow(id, None, FALSE, Some(EnrolledDescriptor), TRUE),
     UserRow(id, Some("S1"), TRUE, Some(EnrolledDescriptor), TRUE)}

SeedElections ==
    [e \in {ActiveElection, InactiveElection} |->
        [id |-> e, isActive |-> (e = ActiveElection), candidates |-> Candidates]]

(***************************************************************************)
(* Credentials of the model.  bcrypt.hash(p) is [bcrypt |-> p] and         *)
(* bcrypt.compare(p, h) holds when h is the hash of p.  A TOTP code is     *)
(* named by the secret whose authenticator shows it now; speakeasy's       *)
(* verify accepts exactly the code of the given secret.  Descriptors are   *)
(* vectors in tenths; the squared distance is in hundredths.               *)
(***************************************************************************)
Usernames == {"alice", "bob"}
Passwords == {"pw-right", "pw-wrong"}
Secrets == {"S1", "S2"}
TotpCodes == {None} \cup {Some([totp |-> x]) : x \in Secrets}
ProbeDescriptors == {<<3, 4>>, <<6, 0>>}
EnrollDescriptors == {EnrolledDescriptor, <<1, 0>>}
ThresholdSquared == 36

bcryptHash(password) == [bcrypt |-> password]

bcryptCompare(password, hash) == hash.bcrypt = password

totpVerify(secret, code) == code.totp = secret

(* for (i = 0; i < faceDescriptor.length; i++): the sum runs over the      *)
(* submitted descriptor's length.                                          *)
DistanceSquared(a, b) ==
    LET d(i) == (a[i] - b[i]) * (a[i] - b[i])
    IN  IF Len(a) >= 2 THEN d(1) + d(2) ELSE IF Len(a) = 1 THEN d(1) ELSE 0

(* Mutant of isMatch: a distance equal to the threshold matches.            *)
isMatchAtThreshold(faceDescriptor, storedDescriptor) ==
    DistanceSquared(faceDescriptor, storedDescriptor) <= ThresholdSquared

isMatch(faceDescriptor, storedDescriptor) == DistanceSquared(faceDescriptor, storedDescriptor) < ThresholdSquared

getUserByUsername(username) ==
    IF \E id \in DOMAIN users : users[id].username = username
    THEN Some(users[CHOOSE id \in DOMAIN users : users[id].username = username])
    ELSE None

(* randomUUID(): an id no row has.                                         *)
FreshUserId == CHOOSE id \in UserIds : id \notin DOMAIN users

(* createUser: the row inserted; users.username is declared unique().      *)
NewUser(id, username, hashedPassword) ==
    [id |-> id, username |-> username, password |-> hashedPassword,
     totpSecret |-> None, totpEnabled |-> FALSE, faceDescriptor |-> None, faceEnabled |-> FALSE]

(* Mutant of UserInsertAccepted: a table without the unique constraint.    *)
UserInsertUnconstrained(newUser) == TRUE

UserInsertAccepted(newUser) == \A id \in DOMAIN users : users[id].username # newUser.username

(* updateUser(id, updates): the row with the given columns set; no row, no *)
(* change.                                                                 *)
WithUser(id, row) == [u \in DOMAIN users \cup {id} |-> IF u = id THEN row ELSE users[u]]

(***************************************************************************)
(* Responses of the authentication endpoints.  verified names the factors  *)
(* the handler checked before it answered.                                 *)
(***************************************************************************)
AuthFailure(status, kind) ==
    [status |-> status, kind |-> kind, token |-> None, user |-> None, verified |-> {}]

(* The user object of a response body: id, totpEnabled, faceEnabled.       *)
UserView(user) == [id |-> user.id, totpEnabled |-> user.totpEnabled, faceEnabled |-> user.faceEnabled]

AuthSuccess(status, kind, token, user, verified) ==
    [status |-> status, kind |-> kind, token |-> token, user |-> user, verified |-> verified]

(* The response goes out and the handler's frame, with req.user, is gone.  *)
Answer(call, response) == [call EXCEPT !.pc = "done", !.user = None, !.response = Some(response)]

Unauthenticated(op, auth) ==
    Answer([IdleCall EXCEPT !.op = op], AuthFailure(auth.response[1].status, auth.response[1].kind))

(* Slots are taken in order among those whose response is out.             *)
FreeCall(k) ==
    /\ calls[k].pc \in {"idle", "done"}
    /\ \A j \in CallIds : j < k => calls[j].pc \notin {"idle", "done"}

(***************************************************************************)
(* POST /api/auth/register: getUserByUsername, then (after bcrypt.hash)    *)
(* createUser and the 201 with a token; the catch block answers 400.       *)
(***************************************************************************)
RegisterLookup(call, username, password) ==
    LET entered == [IdleCall EXCEPT !.op = "register", !.username = username, !.password = password]
    IN  IF getUserByUsername(username) # None
        THEN Answer(entered, AuthFailure(400, "UsernameExists"))
        ELSE [entered EXCEPT !.pc = "createUser"]

(* The model has an id left for a new row, or the request needs none.      *)
Register(k, username, password) ==
    /\ FreeCall(k)
    /\ (DOMAIN users # UserIds \/ getUserByUsername(username) # None)
    /\ calls' = [calls EXCEPT ![k] = RegisterLookup(calls[k], username, password)]
    /\ UNCHANGED <<users, elections, votes, blocks, now, reqs, queries, boot, mining>>

RegisterCreateUser(k) ==
    /\ calls[k].op = "register" /\ calls[k].pc = "createUser"
    /\ (DOMAIN users # UserIds \/ getUserByUsername(calls[k].username) # None)
    /\ LET newUser == NewUser(FreshUserId, calls[k].username, bcryptHash(calls[k].password))
       IN  IF DOMAIN users # UserIds /\ UserInsertAccepted(newUser)
           THEN /\ users' = WithUser(newUser.id, newUser)
                /\ calls' = [calls EXCEPT ![k] =
                      Answer(calls[k], AuthSuccess(201, "UserCreated", Some(TokenIssuedAt(newUser.id, now)),
                                                   Some(UserView(newUser)), {}))]
           ELSE /\ users' = users
                /\ calls' = [calls EXCEPT ![k] = Answer(calls[k], AuthFailure(400, "StoreError"))]
    /\ UNCHANGED <<elections, votes, blocks, now, reqs, queries, boot, mining>>

(***************************************************************************)
(* POST /api/auth/login: getUserByUsername, then (after bcrypt.compare)    *)
(* the password, TOTP and face branches over the row that was read.        *)
(***************************************************************************)
(* Mutant of LoginLookup: an unknown username is reported as such.         *)
LoginLookupNamesUnknownUser(call, username, password, totpCode) ==
    LET entered == [IdleCall EXCEPT !.op = "login", !.username = username,
                                    !.password = password, !.totpCode = totpCode]
        user == getUserByUsername(username)
    IN  IF user = None THEN Answer(entered, AuthFailure(404, "UserNotFound"))
        ELSE [entered EXCEPT !.pc = "compare", !.user = user]

LoginLookup(call, username, password, totpCode) ==
    LET entered == [IdleCall EXCEPT !.op = "login", !.username = username,
                                    !.password = password, !.totpCode = totpCode]
        user == getUserByUsername(username)
    IN  IF user = None THEN Answer(entered, AuthFailure(401, "InvalidCredentials"))
        ELSE [entered EXCEPT !.pc = "compare", !.user = user]

Login(k, username, password, totpCode) ==
    /\ FreeCall(k)
    /\ calls' = [calls EXCEPT ![k] = LoginLookup(calls[k], username, password, totpCode)]
    /\ UNCHANGED <<users, elections, votes, blocks, now, reqs, queries, boot, mining>>

(* Mutant of LoginAfterCompare: a supplied TOTP code is not verified.      *)
LoginAfterCompareAnyCode(call) ==
    LET user == call.user[1]
        token == Some(TokenIssuedAt(user.id, now))
        checksTotp == user.totpEnabled /\ user.totpSecret # None
        factors == IF checksTotp THEN {"password", "totp"} ELSE {"password"}
    IN  IF ~bcryptCompare(call.password, user.password)
        THEN Answer(call, AuthFailure(401, "InvalidCredentials"))
        ELSE IF ~user.totpEnabled
        THEN Answer(call, AuthSuccess(200, "RequiresTotpSetup", token,
                                      Some([UserView(user) EXCEPT !.totpEnabled = FALSE]), {"password"}))
        ELSE IF checksTotp /\ call.totpCode = None
        THEN Answer(call, AuthFailure(401, "RequiresTotp"))
        ELSE IF ~user.faceEnabled
        THEN Answer(call, AuthSuccess(200, "RequiresFaceSetup", token,
                                      Some([UserView(user) EXCEPT !.faceEnabled = FALSE]), factors))
        ELSE Answer(call, AuthSuccess(200, "FaceVerificationRequired", token, Some(UserView(user)), factors))

LoginAfterCompare(call) ==
    LET user == call.user[1]
        token == Some(TokenIssuedAt(user.id, now))
        checksTotp == user.totpEnabled /\ user.totpSecret # None
        factors == IF checksTotp THEN {"password", "totp"} ELSE {"password"}
    IN  IF ~bcryptCompare(call.password, user.password)
        THEN Answer(call, AuthFailure(401, "InvalidCredentials"))
        ELSE IF ~user.totpEnabled
        THEN Answer(call, AuthSuccess(200, "RequiresTotpSetup", token,
                                      Some([UserView(user) EXCEPT !.totpEnabled = FALSE]), {"password"}))
        ELSE IF checksTotp /\ call.totpCode = None
        THEN Answer(call, AuthFailure(401, "RequiresTotp"))
        ELSE IF checksTotp /\ ~totpVerify(user.totpSecret[1], call.totpCode[1])
        THEN Answer(call, AuthFailure(401, "InvalidTotp"))
        ELSE IF ~user.faceEnabled
        THEN Answer(call, AuthSuccess(200, "RequiresFaceSetup", token,
                                      Some([UserView(user) EXCEPT !.faceEnabled = FALSE]), factors))
        ELSE Answer(call, AuthSuccess(200, "FaceVerificationRequired", token, Some(UserView(user)), factors))

LoginCompare(k) ==
    /\ calls[k].op = "login" /\ calls[k].pc = "compare"
    /\ calls' = [calls EXCEPT ![k] = LoginAfterCompare(calls[k])]
    /\ UNCHANGED <<users, elections, votes, blocks, now, reqs, queries, boot, mining>>

(***************************************************************************)
(* GET /api/auth/setup-totp: the middleware's getUser and the enabled      *)
(* check, then updateUser with the generated secret.                       *)
(***************************************************************************)
SetupTotpEnter(call, token, secret) ==
    LET auth == authenticateToken(token)
        entered == [IdleCall EXCEPT !.op = "setup-totp", !.user = auth.user, !.secret = Some(secret)]
    IN  IF ~auth.ok THEN Unauthenticated("setup-totp", auth)
        ELSE IF auth.user[1].totpEnabled THEN Answer(entered, AuthFailure(400, "TotpAlreadyEnabled"))
        ELSE [entered EXCEPT !.pc = "updateUser"]

SetupTotp(k, token, secret) ==
    /\ FreeCall(k)
    /\ calls' = [calls EXCEPT ![k] = SetupTotpEnter(calls[k], token, secret)]
    /\ UNCHANGED <<users, elections, votes, blocks, now, reqs, queries, boot, mining>>

(* Mutant of SetupTotpUpdate: a new secret disables TOTP until verified.    *)
SetupTotpUpdateDisables(k) ==
    /\ calls[k].op = "setup-totp" /\ calls[k].pc = "updateUser"
    /\ LET id == calls[k].user[1].id
       IN  users' = WithUser(id, [users[id] EXCEPT !.totpSecret = calls[k].secret, !.totpEnabled = FALSE])
    /\ calls' = [calls EXCEPT ![k] = Answer(calls[k], AuthSuccess(200, "TotpSecretIssued", None, None, {}))]
    /\ UNCHANGED <<elections, votes, blocks, now, reqs, queries, boot, mining>>

SetupTotpUpdate(k) ==
    /\ calls[k].op = "setup-totp" /\ calls[k].pc = "updateUser"
    /\ LET id == calls[k].user[1].id
       IN  users' = WithUser(id, [users[id] EXCEPT !.totpSecret = calls[k].secret])
    /\ calls' = [calls EXCEPT ![k] = Answer(calls[k], AuthSuccess(200, "TotpSecretIssued", None, None, {}))]
    /\ UNCHANGED <<elections, votes, blocks, now, reqs, queries, boot, mining>>

(***************************************************************************)
(* POST /api/auth/verify-totp: the middleware's getUser, the code checked  *)
(* against req.user.totpSecret, then updateUser(totpEnabled: true).        *)
(***************************************************************************)
(* Mutant of VerifyTotpEnter: a user without a secret is enabled.           *)
VerifyTotpEnterWithoutSecret(call, token, code) ==
    LET auth == authenticateToken(token)
        entered == [IdleCall EXCEPT !.op = "verify-totp", !.user = auth.user, !.totpCode = code]
    IN  IF ~auth.ok THEN Unauthenticated("verify-totp", auth)
        ELSE IF code = None THEN Answer(entered, AuthFailure(400, "ValidationError"))
        ELSE IF auth.user[1].totpSecret = None THEN [entered EXCEPT !.pc = "updateUser"]
        ELSE IF ~totpVerify(auth.user[1].totpSecret[1], code[1]) THEN Answer(entered, AuthFailure(400, "InvalidTotp"))
        ELSE [entered EXCEPT !.pc = "updateUser"]

VerifyTotpEnter(call, token, code) ==
    LET auth == authenticateToken(token)
        entered == [IdleCall EXCEPT !.op = "verify-totp", !.user = auth.user, !.totpCode = code]
    IN  IF ~auth.ok THEN Unauthenticated("verify-totp", auth)
        ELSE IF code = None THEN Answer(entered, AuthFailure(400, "ValidationError"))
        ELSE IF auth.user[1].totpSecret = None THEN Answer(entered, AuthFailure(400, "TotpNotInitialized"))
        ELSE IF ~totpVerify(auth.user[1].totpSecret[1], code[1]) THEN Answer(entered, AuthFailure(400, "InvalidTotp"))
        ELSE [entered EXCEPT !.pc = "updateUser"]

VerifyTotp(k, token, code) ==
    /\ FreeCall(k)
    /\ calls' = [calls EXCEPT ![k] = VerifyTotpEnter(calls[k], token, code)]
    /\ UNCHANGED <<users, elections, votes, blocks, now, reqs, queries, boot, mining>>

VerifyTotpUpdate(k) ==
    /\ calls[k].op = "verify-totp" /\ calls[k].pc = "updateUser"
    /\ LET id == calls[k].user[1].id
       IN  users' = WithUser(id, [users[id] EXCEPT !.totpEnabled = TRUE])
    /\ calls' = [calls EXCEPT ![k] = Answer(calls[k], AuthSuccess(200, "TotpEnabled", None, None, {"totp"}))]
    /\ UNCHANGED <<elections, votes, blocks, now, reqs, queries, boot, mining>>

(***************************************************************************)
(* POST /api/auth/enroll-face: the middleware's getUser and the enabled    *)
(* check, then updateUser(faceDescriptor, faceEnabled: true).              *)
(***************************************************************************)
EnrollFaceEnter(call, token, faceDescriptor) ==
    LET auth == authenticateToken(token)
        entered == [IdleCall EXCEPT !.op = "enroll-face", !.user = auth.user,
                                    !.faceDescriptor = Some(faceDescriptor)]
    IN  IF ~auth.ok THEN Unauthenticated("enroll-face", auth)
        ELSE IF auth.user[1].faceEnabled THEN Answer(entered, AuthFailure(400, "FaceAlreadyEnabled"))
        ELSE [entered EXCEPT !.pc = "updateUser"]

EnrollFace(k, token, faceDescriptor) ==
    /\ FreeCall(k)
    /\ calls' = [calls EXCEPT ![k] = EnrollFaceEnter(calls[k], token, faceDescriptor)]
    /\ UNCHANGED <<users, elections, votes, blocks, now, reqs, queries, boot, mining>>

EnrollFaceUpdate(k) ==
    /\ calls[k].op = "enroll-face" /\ calls[k].pc = "updateUser"
    /\ LET id == calls[k].user[1].id
       IN  users' = WithUser(id, [users[id] EXCEPT !.faceDescriptor = calls[k].faceDescriptor,
                                                   !.faceEnabled = TRUE])
    /\ calls' = [calls EXCEPT ![k] = Answer(calls[k], AuthSuccess(200, "FaceEnrolled", None, None, {}))]
    /\ UNCHANGED <<elections, votes, blocks, now, reqs, queries, boot, mining>>

(***************************************************************************)
(* POST /api/auth/verify-face: getUserByUsername, then the distance of the *)
(* submitted descriptor to the stored one against the threshold.           *)
(***************************************************************************)
(* faceVerifySchema extended with loginSchema's username: a non-empty name *)
(* and a descriptor of at least the minimum length (128 numbers in the     *)
(* source, 2 at the scale of the model's descriptors).                     *)
DescriptorMinLength == 2

faceVerifySchemaAccepts(username, faceDescriptor) ==
    username # "" /\ Len(faceDescriptor) >= DescriptorMinLength

(* Mutant of VerifyFaceResult: a caller whose previous attempt was turned   *)
(* away is locked out.                                                     *)
VerifyFaceResultLocksOut(call, username, faceDescriptor) ==
    LET entered == [IdleCall EXCEPT !.op = "verify-face", !.username = username,
                                    !.faceDescriptor = Some(faceDescriptor)]
        user == getUserByUsername(username)
    IN  IF ~faceVerifySchemaAccepts(username, faceDescriptor)
        THEN Answer(entered, AuthFailure(400, "ValidationError"))
        ELSE IF call.op = "verify-face" /\ call.username = username /\ call.response[1].status = 401
        THEN Answer(entered, AuthFailure(401, "FaceMismatch"))
        ELSE IF user = None THEN Answer(entered, AuthFailure(401, "FaceNotEnabled"))
        ELSE IF ~user[1].faceEnabled \/ user[1].faceDescriptor = None
        THEN Answer(entered, AuthFailure(401, "FaceNotEnabled"))
        ELSE IF isMatch(faceDescriptor, user[1].faceDescriptor[1])
        THEN Answer(entered, AuthSuccess(200, "FaceVerified", Some(TokenIssuedAt(user[1].id, now)),
                                         Some(UserView(user[1])), {"face"}))
        ELSE Answer(entered, AuthFailure(401, "FaceMismatch"))

VerifyFaceResult(call, username, faceDescriptor) ==
    LET entered == [IdleCall EXCEPT !.op = "verify-face", !.username = username,
                                    !.faceDescriptor = Some(faceDescriptor)]
        user == getUserByUsername(username)
    IN  IF ~faceVerifySchemaAccepts(username, faceDescriptor)
        THEN Answer(entered, AuthFailure(400, "ValidationError"))
        ELSE IF user = None THEN Answer(entered, AuthFailure(401, "FaceNotEnabled"))
        ELSE IF ~user[1].faceEnabled \/ user[1].faceDescriptor = None
        THEN Answer(entered, AuthFailure(401, "FaceNotEnabled"))
        ELSE IF isMatch(faceDescriptor, user[1].faceDescriptor[1])
        THEN Answer(entered, AuthSuccess(200, "FaceVerified", Some(TokenIssuedAt(user[1].id, now)),
                                         Some(UserView(user[1])), {"face"}))
        ELSE Answer(entered, AuthFailure(401, "FaceMismatch"))

VerifyFace(k, username, faceDescriptor) ==
    /\ FreeCall(k)
    /\ calls' = [calls EXCEPT ![k] = VerifyFaceResult(calls[k], username, faceDescriptor)]
    /\ UNCHANGED <<users, elections, votes, blocks, now, reqs, queries, boot, mining>>

Init ==
    /\ users \in {[u \in UserIds |-> IF u = "u1" THEN row1 ELSE row2] :
                     row1 \in FactorRows("u1"), row2 \in FactorRows("u2")}
    /\ elections = SeedElections
    /\ votes = <<>>
    /\ blocks = <<>>
    /\ now = 0
    /\ reqs = [r \in ReqIds |-> IdleRequest]
    /\ calls = [k \in CallIds |-> IdleCall]
    /\ queries = [q \in QueryIds |-> IdleQuery]
    /\ boot = "ready"
    /\ mining = NotMining

(* register answers every created user with a token for its id.           *)
IssuedTokens == {Token(u) : u \in DOMAIN users}

RequestTokens == {None, Some(BadToken)} \cup {Some(t) : t \in IssuedTokens}

(* Concurrent requests vote for one candidate: the races do not depend on  *)
(* which candidate is named.                                               *)
LedgerCandidates == {"candidate-1"}

Next ==
    \/ \E r \in ReqIds, token \in RequestTokens, e \in RequestElectionIds, c \in LedgerCandidates :
          CastVote(r, token, e, c)
    \/ \E r \in ReqIds : VoteGetElection(r)
    \/ \E r \in ReqIds : VoteGetUserVote(r)
    \/ \E r \in ReqIds : VoteGetLatestBlock(r)
    \/ \E r \in ReqIds : VoteCreateVote(r)
    \/ \E r \in ReqIds : VoteCreateBlock(r)
    \/ Tick

Spec == Init /\ [][Next]_vars

(***************************************************************************)
(* The same requests served one after another: a request arrives only when *)
(* no other request is in flight.                                          *)
(***************************************************************************)
NoneInFlight == \A r \in ReqIds : reqs[r].pc \in {"idle", "done"}

NextSeq ==
    \/ \E r \in ReqIds, token \in RequestTokens, e \in RequestElectionIds, c \in LedgerCandidates :
          NoneInFlight /\ CastVote(r, token, e, c)
    \/ \E r \in ReqIds : VoteGetElection(r)
    \/ \E r \in ReqIds : VoteGetUserVote(r)
    \/ \E r \in ReqIds : VoteGetLatestBlock(r)
    \/ \E r \in ReqIds : VoteCreateVote(r)
    \/ \E r \in ReqIds : VoteCreateBlock(r)
    \/ Tick

SpecSeq == Init /\ [][NextSeq]_vars

(***************************************************************************)
(* Properties of the ledger under concurrent POST /api/vote requests.      *)
(***************************************************************************)
VoteRows == {votes[i] : i \in 1..Len(votes)}

BlockRows == {blocks[i] : i \in 1..Len(blocks)}

Finished(r) == reqs[r].pc = "done"

InFlight(r) == reqs[r].pc \notin {"idle", "done"}

Status(r) == reqs[r].response[1].status

Kind(r) == reqs[r].response[1].kind

(* C1: in every reachable state there is at most one Vote row per          *)
(* (voter id, election id) pair.                                           *)
C1_OneVotePerVoterAndElection ==
    \A i, j \in 1..Len(votes) :
        (votes[i].userId = votes[j].userId /\ votes[i].electionId = votes[j].electionId) => i = j

(* C2: the blocks form a hash chain: block 1 has previousHash "0" and      *)
(* every block numbered n > 1 has the hash of the block numbered n - 1 as  *)
(* its previousHash.                                                       *)
C2_HashChain ==
    \A b \in BlockRows :
        /\ b.blockNumber >= 1
        /\ b.blockNumber = 1 => b.previousHash = GenesisPreviousHash
        /\ b.blockNumber > 1 =>
              /\ \E a \in BlockRows : a.blockNumber = b.blockNumber - 1
              /\ \A a \in BlockRows : a.blockNumber = b.blockNumber - 1 => b.previousHash = a.hash

(* A second block has been appended behind the genesis block.             *)
C2_Witness ==
    /\ Len(blocks) = 2
    /\ blocks[1].blockNumber = 1
    /\ blocks[2].blockNumber = 2
    /\ blocks[2].previousHash = blocks[1].hash
    /\ blocks[2].previousHash # GenesisPreviousHash

(* C3: no two Block rows share a blockNumber, a hash or a previousHash.    *)
C3_BlocksUnique ==
    \A i, j \in 1..Len(blocks) :
        i # j => /\ blocks[i].blockNumber # blocks[j].blockNumber
                 /\ blocks[i].hash # blocks[j].hash
                 /\ blocks[i].previousHash # blocks[j].previousHash

(* Two requests of different users read the same latest block before       *)
(* either wrote; one appended and the other was turned away by the store.  *)
C3_Witness ==
    \E r, q \in ReqIds :
        /\ Finished(r) /\ Finished(q)
        /\ reqs[r].user # None /\ reqs[q].user # None
        /\ reqs[r].user[1].id # reqs[q].user[1].id
        /\ reqs[r].mined # None /\ reqs[q].mined # None
        /\ reqs[r].latestBlock = reqs[q].latestBlock
        /\ Status(r) = 200
        /\ Kind(q) = "StoreError"

(* C4: recomputing the fingerprint over the stored vote payload, the       *)
(* stored previousHash and the stored nonce reproduces the stored hash.    *)
StoredPayload(b) ==
    <<b.votes[1].userId, b.votes[1].electionId, b.votes[1].candidateId, b.votes[1].timestamp,
      b.previousHash, b.nonce>>

C4_StoredPayloadReproducesHash ==
    \A b \in BlockRows : calculateHash(StoredPayload(b)) = b.hash

(* C8: every persisted hash starts with DefaultDifficulty zero characters. *)
SatisfiesProofOfWork(hash) == Substring(hash, DefaultDifficulty) = Target(DefaultDifficulty)

C8_ProofOfWork ==
    /\ \A b \in BlockRows : SatisfiesProofOfWork(b.hash)
    /\ \A v \in VoteRows : SatisfiesProofOfWork(v.blockHash)

(* A block is persisted whose sealing needed more than one trial.          *)
C8_Witness ==
    \E b \in BlockRows : b.nonce > 1 /\ \E v \in VoteRows : v.blockHash = b.hash

(* C9: a request that answered with an error status persisted neither a    *)
(* Vote nor a Block.                                                       *)
PersistedVoteOf(r) == {v \in VoteRows : reqs[r].vote # None /\ v.id = reqs[r].vote[1].id}

PersistedBlockOf(r) ==
    {b \in BlockRows : reqs[r].vote # None /\ \E k \in 1..Len(b.votes) : b.votes[k].id = reqs[r].vote[1].id}

C9_ErrorPersistsNothing ==
    \A r \in ReqIds :
        (Finished(r) /\ Status(r) >= 400) => (PersistedVoteOf(r) = {} /\ PersistedBlockOf(r) = {})

(* C10: with no request in flight, Votes and Blocks correspond one to one. *)
Quiescent == \A r \in ReqIds : ~InFlight(r)

Seals(b, v) ==
    /\ b.votes = <<v>>
    /\ v.blockHash = b.hash
    /\ v.previousHash = b.previousHash
    /\ v.nonce = b.nonce

C10_VotesAndBlocksCorrespond ==
    Quiescent =>
        /\ \A b \in BlockRows : \E v \in VoteRows : Seals(b, v)
        /\ \A v \in VoteRows : Cardinality({b \in BlockRows : Seals(b, v)}) = 1

(* C6: a well-formed castVote of a user whose totpEnabled is false answers *)
(* 403 TotpRequired, and one of a user with TOTP but without face          *)
(* recognition answers 403 FaceRequired; neither goes on to any storage    *)
(* call, so nothing is written.                                            *)
Parsed(r) == reqs[r].pc # "idle" /\ reqs[r].user # None /\ reqs[r].electionId # EmptyId

Requester(r) == users[reqs[r].user[1].id]

RejectedUnwritten(r, kind) ==
    /\ Finished(r)
    /\ reqs[r].response = Some(Failure(403, kind))
    /\ reqs[r].latestBlock = None /\ reqs[r].mined = None /\ reqs[r].vote = None
    /\ PersistedVoteOf(r) = {} /\ PersistedBlockOf(r) = {}

C6_FactorGates ==
    \A r \in ReqIds :
        Parsed(r) =>
            /\ ~Requester(r).totpEnabled => RejectedUnwritten(r, "TotpRequired")
            /\ (Requester(r).totpEnabled /\ ~Requester(r).faceEnabled) => RejectedUnwritten(r, "FaceRequired")

(* Both rejections have happened, for different elections.                 *)
C6_Witness ==
    \E r, q \in ReqIds :
        /\ Finished(r) /\ Kind(r) = "TotpRequired"
        /\ Finished(q) /\ Kind(q) = "FaceRequired"
        /\ reqs[r].electionId # reqs[q].electionId

(* C7: served one after another, a castVote that follows a successful      *)
(* castVote of the same user for the same election answers 400             *)
(* DuplicateVote, and no step of it changes the Vote or the Block rows.    *)
Repeats(r) ==
    \E q \in ReqIds :
        /\ q < r
        /\ Finished(q) /\ Status(q) = 200
        /\ reqs[r].user # None
        /\ reqs[r].user[1].id = reqs[q].user[1].id
        /\ reqs[r].electionId = reqs[q].electionId

C7_SecondVoteIsDuplicate ==
    [][\A r \in ReqIds :
          (reqs'[r] # reqs[r] /\ Repeats(r)')
             => /\ votes' = votes /\ blocks' = blocks
                /\ reqs'[r].pc = "done" => reqs'[r].response = Some(Failure(400, "DuplicateVote"))]_vars

C7_Witness ==
    \E r \in ReqIds :
        /\ Repeats(r)
        /\ Finished(r) /\ Kind(r) = "DuplicateVote"
        /\ Len(votes) = 1 /\ Len(blocks) = 1

(***************************************************************************)
(* The authentication gate alone, from the store initializeIfEmpty leaves: *)
(* no user, the seed election.                                             *)
(***************************************************************************)
InitAuth ==
    /\ users = <<>>
    /\ elections = SeedElections
    /\ votes = <<>>
    /\ blocks = <<>>
    /\ now = 0
    /\ reqs = [r \in ReqIds |-> IdleRequest]
    /\ calls = [k \in CallIds |-> IdleCall]
    /\ queries = [q \in QueryIds |-> IdleQuery]
    /\ boot = "ready"
    /\ mining = NotMining

BearerTokens == {Some(t) : t \in IssuedTokens}

NextAuth ==
    \/ \E k \in CallIds : Register(k, "alice", "pw-right")
    \/ \E k \in CallIds : RegisterCreateUser(k)
    \/ \E k \in CallIds, username \in Usernames, password \in Passwords, code \in TotpCodes :
          Login(k, username, password, code)
    \/ \E k \in CallIds : LoginCompare(k)
    \/ \E k \in CallIds, token \in BearerTokens, secret \in Secrets : SetupTotp(k, token, secret)
    \/ \E k \in CallIds : SetupTotpUpdate(k)
    \/ \E k \in CallIds, token \in BearerTokens, code \in TotpCodes : VerifyTotp(k, token, code)
    \/ \E k \in CallIds : VerifyTotpUpdate(k)
    \/ \E k \in CallIds, token \in BearerTokens, d \in EnrollDescriptors : EnrollFace(k, token, d)
    \/ \E k \in CallIds : EnrollFaceUpdate(k)
    \/ \E k \in CallIds, username \in Usernames, d \in ProbeDescriptors : VerifyFace(k, username, d)

SpecAuth == InitAuth /\ [][NextAuth]_vars

(* C5: a token goes to a user with TOTP and face recognition enabled only  *)
(* from a call that verified the password, the TOTP code and the face      *)
(* descriptor.                                                             *)
IssuesToken(k) ==
    /\ calls[k].pc = "done"
    /\ calls[k].op \in {"login", "verify-face"}
    /\ calls[k].response[1].token # None

C5_TokenOnlyAfterAllFactors ==
    \A k \in CallIds :
        (/\ IssuesToken(k)
         /\ calls[k].response[1].user[1].totpEnabled
         /\ calls[k].response[1].user[1].faceEnabled)
            => {"password", "totp", "face"} \subseteq calls[k].response[1].verified

(***************************************************************************)
(* The tally beside the ledger: two eligible users vote, one request after *)
(* another, for either candidate of the seed election while GET            *)
(* /api/results requests read the store between any two steps.             *)
(***************************************************************************)
EligibleRow(id) == UserRow(id, Some("S1"), TRUE, Some(EnrolledDescriptor), TRUE)

InitTally ==
    /\ users = [u \in UserIds |-> EligibleRow(u)]
    /\ elections = SeedElections
    /\ votes = <<>>
    /\ blocks = <<>>
    /\ now = 0
    /\ reqs = [r \in ReqIds |-> IdleRequest]
    /\ calls = [k \in CallIds |-> IdleCall]
    /\ queries = [q \in QueryIds |-> IdleQuery]
    /\ boot = "ready"
    /\ mining = NotMining

ResultTokens == {None, Some(Token("u1"))}

ResultElectionIds == {ActiveElection, InactiveElection, UnknownElection}

NextTally ==
    \/ \E r \in ReqIds, token \in BearerTokens, c \in Candidates :
          NoneInFlight /\ CastVote(r, token, ActiveElection, c)
    \/ \E r \in ReqIds : VoteGetElection(r)
    \/ \E r \in ReqIds : VoteGetUserVote(r)
    \/ \E r \in ReqIds : VoteGetLatestBlock(r)
    \/ \E r \in ReqIds : VoteCreateVote(r)
    \/ \E r \in ReqIds : VoteCreateBlock(r)
    \/ \E q \in QueryIds, token \in ResultTokens, e \in ResultElectionIds : GetResults(q, token, e)
    \/ \E q \in QueryIds : ResultsGetElection(q)
    \/ \E q \in QueryIds : ResultsGetVotes(q)
    \/ \E q \in QueryIds : ResultsGetBlocks(q)

SpecTally == InitTally /\ [][NextTally]_vars

RECURSIVE SumOver(_, _)
SumOver(map, keys) ==
    IF keys = {} THEN 0
    ELSE LET k == CHOOSE x \in keys : TRUE
         IN  map[k] + SumOver(map, keys \ {k})

CountOf(map, c) == IF c \in DOMAIN map THEN map[c] ELSE 0

StoredVotesFor(electionId, candidateId) ==
    {i \in 1..Len(votes) : votes[i].electionId = electionId /\ votes[i].candidateId = candidateId}

StoredVotesOf(electionId) == {i \in 1..Len(votes) : votes[i].electionId = electionId}

(* C11: the map Get results reduces from the store state it reads counts,  *)
(* for each candidate, the stored votes of the election for that           *)
(* candidate; the total it reports is the number of stored votes of the    *)
(* election and the sum of the map's values, with zero votes too.          *)
TallyMatchesStore(query) ==
    /\ Len(query.votes) = Cardinality(StoredVotesOf(query.electionId))
    /\ DOMAIN query.results \subseteq Candidates
    /\ \A c \in Candidates : CountOf(query.results, c) = Cardinality(StoredVotesFor(query.electionId, c))

EnablesTotp(k) == calls[k].op = "verify-totp" /\ calls[k].pc = "updateUser" /\ calls'[k].pc = "done"

C12_TotpEnabledOverVerifiedSecret ==
    [][/\ \A k \in CallIds :
             EnablesTotp(k) => users'[calls[k].user[1].id].totpSecret = calls[k].user[1].totpSecret
       /\ \A id \in DOMAIN users :
             users[id].totpEnabled => users'[id].totpSecret = users[id].totpSecret]_vars

(* C13: a face descriptor is written once: no step changes the descriptor  *)
(* of a row whose faceEnabled is true, and an enroll-face request that     *)
(* arrives with the token of such a row is answered 400.                   *)
C13_FaceDescriptorWrittenOnce ==
    [][/\ \A id \in DOMAIN users :
             users[id].faceEnabled => users'[id].faceDescriptor = users[id].faceDescriptor
       /\ \A t \in IssuedTokens, d \in EnrollDescriptors :
             users[t.userId].faceEnabled
                => EnrollFaceEnter(IdleCall, Some(t), d).response = Some(AuthFailure(400, "FaceAlreadyEnabled"))]_vars

(***************************************************************************)
(* Login beside TOTP set-up: alice's row is as registration, TOTP          *)
(* verification or face enrolment left it, no row has the username bob,    *)
(* and logins interleave with setup-totp and verify-totp requests.         *)
(***************************************************************************)
InitLogin ==
    /\ users \in {[u \in {"u1"} |-> row] : row \in FactorRows("u1")}
    /\ elections = SeedElections
    /\ votes = <<>>
    /\ blocks = <<>>
    /\ now = 0
    /\ reqs = [r \in ReqIds |-> IdleRequest]
    /\ calls = [k \in CallIds |-> IdleCall]
    /\ queries = [q \in QueryIds |-> IdleQuery]
    /\ boot = "ready"
    /\ mining = NotMining

NextLogin ==
    \/ \E k \in CallIds, username \in Usernames, password \in Passwords, code \in TotpCodes :
          Login(k, username, password, code)
    \/ \E k \in CallIds : LoginCompare(k)
    \/ \E k \in CallIds, token \in BearerTokens : SetupTotp(k, token, "S2")
    \/ \E k \in CallIds : SetupTotpUpdate(k)
    \/ \E k \in CallIds, token \in BearerTokens : VerifyTotp(k, token, Some([totp |-> "S2"]))
    \/ \E k \in CallIds : VerifyTotpUpdate(k)

SpecLogin == InitLogin /\ [][NextLogin]_vars

(* The step in which login request k gets its answer, and the row it read. *)
LoginArrives(k) == calls[k].pc \in {"idle", "done"} /\ calls'[k].op = "login" /\ calls'[k] # calls[k]

LoginCompares(k) == calls[k].op = "login" /\ calls[k].pc = "compare" /\ calls'[k] # calls[k]

StoreUnchanged == users' = users /\ elections' = elections /\ votes' = votes /\ blocks' = blocks

(* C15: a login with a username no row has and a login with a known        *)
(* username and a wrong password get the same answer, 401                  *)
(* InvalidCredentials without a token, and both leave the store as it was. *)
C15_LoginFailuresIndistinguishable ==
    [][\A k \in CallIds :
          /\ (LoginArrives(k) /\ getUserByUsername(calls'[k].username) = None)
                => (calls'[k].response = Some(AuthFailure(401, "InvalidCredentials")) /\ StoreUnchanged)
          /\ (LoginCompares(k) /\ ~bcryptCompare(calls[k].password, calls[k].user[1].password))
                => (calls'[k].response = Some(AuthFailure(401, "InvalidCredentials")) /\ StoreUnchanged)]_vars

(* Both failures have been answered, and the two answers are equal.        *)
C15_Witness ==
    \E j, k \in CallIds :
        /\ calls[j].op = "login" /\ calls[j].pc = "done" /\ calls[j].username = "bob"
        /\ calls[k].op = "login" /\ calls[k].pc = "done" /\ calls[k].username = "alice"
        /\ calls[k].password = "pw-wrong"
        /\ calls[j].response = calls[k].response
        /\ calls[k].response[1].kind = "InvalidCredentials"

(* C17: login answers with a token exactly when the password matches and  *)
(* the row it read has TOTP disabled (RequiresTotpSetup, the code not      *)
(* looked at) or the supplied code verifies against the row's secret; with *)
(* TOTP enabled a missing code is answered 401 RequiresTotp and a wrong    *)
(* one 401 InvalidTotp.                                                    *)
CodeVerifies(call) ==
    call.totpCode # None /\ totpVerify(call.user[1].totpSecret[1], call.totpCode[1])

C17_LoginIssuesTokenIff ==
    [][\A k \in CallIds :
          /\ (LoginArrives(k) /\ calls'[k].pc = "done") => calls'[k].response[1].token = None
          /\ LoginCompares(k) =>
                LET call == calls[k]
                    row == call.user[1]
                    answer == calls'[k].response[1]
                    passwordOk == bcryptCompare(call.password, row.password)
                IN  /\ calls'[k].pc = "done"
                    /\ answer.token # None <=> (passwordOk /\ (~row.totpEnabled \/ CodeVerifies(call)))
                    /\ answer.token # None => answer.token = Some(Token(row.id))
                    /\ (passwordOk /\ ~row.totpEnabled) => answer.kind = "RequiresTotpSetup"
                    /\ (passwordOk /\ row.totpEnabled /\ call.totpCode = None)
                          => (answer.status = 401 /\ answer.kind = "RequiresTotp")
                    /\ (passwordOk /\ row.totpEnabled /\ call.totpCode # None /\ ~CodeVerifies(call))
                          => (answer.status = 401 /\ answer.kind = "InvalidTotp")]_vars

(* A login without a code got a token for set-up and a login with a wrong  *)
(* code was turned away.                                                   *)
C17_Witness ==
    \E j, k \in CallIds :
        /\ calls[j].op = "login" /\ calls[j].pc = "done"
        /\ calls[j].response[1].kind = "RequiresTotpSetup" /\ calls[j].response[1].token # None
        /\ calls[j].totpCode = None
        /\ calls[k].op = "login" /\ calls[k].pc = "done"
        /\ calls[k].response[1].kind = "InvalidTotp" /\ calls[k].response[1].token = None

(***************************************************************************)
(* From password login to the ballot: alice's row is as registration left  *)
(* it.  She logs in with her password alone, and the token of an answer    *)
(* she holds goes with her set-up requests and her votes; a vote is sent   *)
(* when no other vote is in flight, at any point of the set-up requests.   *)
(***************************************************************************)
InitSetup ==
    /\ users = [u \in {"u1"} |-> UserRow("u1", None, FALSE, None, FALSE)]
    /\ elections = SeedElections
    /\ votes = <<>>
    /\ blocks = <<>>
    /\ now = 0
    /\ reqs = [r \in ReqIds |-> IdleRequest]
    /\ calls = [k \in CallIds |-> IdleCall]
    /\ queries = [q \in QueryIds |-> IdleQuery]
    /\ boot = "ready"
    /\ mining = NotMining

(* The tokens of the answers not yet overwritten by a later call.          *)
HeldTokens ==
    {calls[k].response[1].token : k \in {j \in CallIds : calls[j].pc = "done" /\ calls[j].response[1].token # None}}

NextSetup ==
    \/ \E k \in CallIds : Login(k, "alice", "pw-right", None)
    \/ \E k \in CallIds : LoginCompare(k)
    \/ \E k \in CallIds, token \in HeldTokens : SetupTotp(k, token, "S1")
    \/ \E k \in CallIds : SetupTotpUpdate(k)
    \/ \E k \in CallIds, token \in HeldTokens : VerifyTotp(k, token, Some([totp |-> "S1"]))
    \/ \E k \in CallIds : VerifyTotpUpdate(k)
    \/ \E k \in CallIds, token \in HeldTokens : EnrollFace(k, token, EnrolledDescriptor)
    \/ \E k \in CallIds : EnrollFaceUpdate(k)
    \/ \E r \in ReqIds, token \in HeldTokens :
          NoneInFlight /\ CastVote(r, token, ActiveElection, "candidate-1")
    \/ \E r \in ReqIds : VoteGetElection(r)
    \/ \E r \in ReqIds : VoteGetUserVote(r)
    \/ \E r \in ReqIds : VoteGetLatestBlock(r)
    \/ \E r \in ReqIds : VoteCreateVote(r)
    \/ \E r \in ReqIds : VoteCreateBlock(r)

SpecSetup == InitSetup /\ [][NextSetup]_vars

(* Request r presents the token a password-only login answered with.       *)
SetupCredential(k) ==
    /\ calls[k].op = "login" /\ calls[k].pc = "done"
    /\ calls[k].response[1].kind = "RequiresTotpSetup"
    /\ calls[k].response[1].token # None

PresentsSetupCredential(r) ==
    reqs[r].pc # "idle" /\ \E k \in CallIds : SetupCredential(k) /\ reqs[r].token = calls[k].response[1].token

(* C14, as claimed: no castVote presenting the credential of a             *)
(* password-only login ever succeeds.                                      *)
C14_SetupCredentialNeverVotes ==
    \A r \in ReqIds : PresentsSetupCredential(r) => ~(Finished(r) /\ Status(r) = 200)

(* C14, amended: the credential of a password-only login is not by itself  *)
(* good for voting: a castVote presenting it succeeds only if the row read *)
(* when the request was authenticated has totpEnabled and faceEnabled      *)
(* true, and is otherwise answered 403 with nothing written.               *)
C14_SetupCredentialVotesOnlyWithFactors ==
    \A r \in ReqIds :
        PresentsSetupCredential(r) =>
            /\ (Finished(r) /\ Status(r) = 200) => (reqs[r].user[1].totpEnabled /\ reqs[r].user[1].faceEnabled)
            /\ ~(reqs[r].user[1].totpEnabled /\ reqs[r].user[1].faceEnabled)
                  => /\ Finished(r) /\ Status(r) = 403
                     /\ Kind(r) \in {"TotpRequired", "FaceRequired"}
                     /\ reqs[r].vote = None /\ PersistedVoteOf(r) = {} /\ PersistedBlockOf(r) = {}

(* The same credential was turned away before set-up and voted after it.   *)
C14_Witness ==
    \E r, q \in ReqIds :
        /\ PresentsSetupCredential(r) /\ PresentsSetupCredential(q)
        /\ reqs[r].token = reqs[q].token
        /\ Finished(r) /\ Kind(r) = "TotpRequired"
        /\ Finished(q) /\ Status(q) = 200

(***************************************************************************)
(* The ledger after an election was closed: u1 voted in the election       *)
(* e-closed while it was active, and its row now has isActive false.  The  *)
(* vote and its block are as POST /api/vote wrote them at time 0.          *)
(* Requests are served one after another.                                  *)
(***************************************************************************)
ClosedVoteData ==
    [userId |-> "u1", electionId |-> InactiveElection, candidateId |-> "candidate-1", timestamp |-> 0]

ClosedVote ==
    LET mined == mineBlock(ClosedVoteData, GenesisPreviousHash, DefaultDifficulty)
    IN  [id |-> 1, userId |-> "u1", electionId |-> InactiveElection, candidateId |-> "candidate-1",
         blockHash |-> mined.hash, previousHash |-> GenesisPreviousHash, nonce |-> mined.nonce,
         timestamp |-> 0]

ClosedBlock ==
    [id |-> 1, blockNumber |-> 1, hash |-> ClosedVote.blockHash, previousHash |-> GenesisPreviousHash,
     votes |-> <<ClosedVote>>, nonce |-> ClosedVote.nonce, timestamp |-> 0]

InitClosed ==
    /\ users \in {[u \in UserIds |-> IF u = "u1" THEN EligibleRow("u1") ELSE row] : row \in FactorRows("u2")}
    /\ elections = SeedElections
    /\ votes = <<ClosedVote>>
    /\ blocks = <<ClosedBlock>>
    /\ now = 0
    /\ reqs = [r \in ReqIds |-> IdleRequest]
    /\ calls = [k \in CallIds |-> IdleCall]
    /\ queries = [q \in QueryIds |-> IdleQuery]
    /\ boot = "ready"
    /\ mining = NotMining

SpecClosed == InitClosed /\ [][NextSeq]_vars

(* C16: the answer of a castVote is the error of the first gate that       *)
(* fails, in the order TOTP enabled, face enabled, election exists,        *)
(* election active, no prior vote.                                         *)
PassesFactorGates(r) == reqs[r].user[1].totpEnabled /\ reqs[r].user[1].faceEnabled

PassesElectionGates(r) ==
    /\ PassesFactorGates(r)
    /\ getElection(reqs[r].electionId) # None
    /\ getElection(reqs[r].electionId)[1].isActive

C16_FirstFailingGate ==
    \A r \in ReqIds :
        (Finished(r) /\ Parsed(r)) =>
            /\ ~reqs[r].user[1].totpEnabled => Kind(r) = "TotpRequired"
            /\ (reqs[r].user[1].totpEnabled /\ ~reqs[r].user[1].faceEnabled) => Kind(r) = "FaceRequired"
            /\ (PassesFactorGates(r) /\ getElection(reqs[r].electionId) = None) => Kind(r) = "ElectionNotFound"
            /\ (PassesFactorGates(r) /\ getElection(reqs[r].electionId) # None /\ ~PassesElectionGates(r))
                  => Kind(r) = "ElectionInactive"
            /\ PassesElectionGates(r) => Kind(r) \in {"DuplicateVote", "VoteRecorded", "StoreError"}
            /\ Kind(r) = "DuplicateVote" => getUserVote(reqs[r].user[1].id, reqs[r].electionId) # None

(* A user without TOTP asked for an election that does not exist, and a    *)
(* user who had voted in the closed election asked for it again.           *)
C16_Witness ==
    \E r, q \in ReqIds :
        /\ Finished(r) /\ Kind(r) = "TotpRequired" /\ reqs[r].electionId = UnknownElection
        /\ Finished(q) /\ Kind(q) = "ElectionInactive"
        /\ getUserVote(reqs[q].user[1].id, reqs[q].electionId) # None

(***************************************************************************)
(* Registration alone, from the empty users table: requests for either     *)
(* username, interleaved between the lookup and the insert.                *)
(***************************************************************************)
NextRegister ==
    \/ \E k \in CallIds, username \in Usernames, password \in Passwords : Register(k, username, password)
    \/ \E k \in CallIds : RegisterCreateUser(k)

SpecRegister == InitAuth /\ [][NextRegister]_vars

UsernamesUnique == \A a, b \in DOMAIN users : users[a].username = users[b].username => a = b

RegisterArrives(k) == calls[k].pc \in {"idle", "done"} /\ calls'[k].op = "register" /\ calls'[k] # calls[k]

RegisterInserts(k) == calls[k].op = "register" /\ calls[k].pc = "createUser" /\ calls'[k].pc = "done"

(* C18: usernames stay unique; a Register whose username has a row is      *)
(* answered 400 (UsernameExists when the lookup finds the row) and creates *)
(* no user; a Register answered 201 has added one row, with the password   *)
(* hash alone: no TOTP secret, no face descriptor, both flags false.       *)
C18_RegisterKeepsUsernamesUnique ==
    [][/\ UsernamesUnique'
       /\ \A k \in CallIds :
             /\ (RegisterArrives(k) /\ getUserByUsername(calls'[k].username) # None)
                   => (calls'[k].response = Some(AuthFailure(400, "UsernameExists")) /\ users' = users)
             /\ (RegisterInserts(k) /\ getUserByUsername(calls[k].username) # None)
                   => (calls'[k].response[1].status = 400 /\ users' = users)
             /\ (RegisterInserts(k) /\ calls'[k].response[1].status # 201) => users' = users
             /\ (RegisterInserts(k) /\ calls'[k].response[1].status = 201)
                   => \E id \in UserIds \ DOMAIN users :
                         /\ users' = WithUser(id, [id |-> id, username |-> calls[k].username,
                                                    password |-> bcryptHash(calls[k].password),
                                                    totpSecret |-> None, totpEnabled |-> FALSE,
                                                    faceDescriptor |-> None, faceEnabled |-> FALSE])
                         /\ calls'[k].response[1].user = Some([id |-> id, totpEnabled |-> FALSE, faceEnabled |-> FALSE])
                         /\ calls'[k].response[1].token = Some(Token(id))]_vars

(* Two requests for one username both passed the lookup; one created the   *)
(* user and the store turned the other away.                               *)
C18_Witness ==
    \E j, k \in CallIds :
        /\ calls[j].op = "register" /\ calls[j].pc = "done" /\ calls[j].response[1].status = 201
        /\ calls[k].op = "register" /\ calls[k].pc = "done" /\ calls[k].response[1].kind = "StoreError"
        /\ calls[j].username = calls[k].username
        /\ Cardinality(DOMAIN users) = 1

(* C19: Vote and Block rows are append-only: every row that exists before  *)
(* a step exists unchanged, at its place, after it.                        *)
C19_AppendOnly ==
    [][/\ Len(votes') >= Len(votes)
       /\ \A i \in 1..Len(votes) : votes'[i] = votes[i]
       /\ Len(blocks') >= Len(blocks)
       /\ \A i \in 1..Len(blocks) : blocks'[i] = blocks[i]]_vars

(* Rows were appended behind existing ones: two votes of one user for one  *)
(* election are stored, the first as it was written.                       *)
C19_Witness ==
    /\ Len(votes) = 2 /\ Len(blocks) >= 1
    /\ votes[1].userId = votes[2].userId /\ votes[1].electionId = votes[2].electionId
    /\ votes[1].id = 1 /\ votes[2].id = 2
    /\ blocks[1].votes = <<votes[1]>>

(***************************************************************************)
(* The store failing under POST /api/vote: any awaited storage call of the *)
(* handler may throw (connection lost, statement refused) before it takes  *)
(* effect; the handler's catch block answers with the error's message.     *)
(***************************************************************************)
StorageCalls == {"getElection", "getUserVote", "getLatestBlock", "createVote", "createBlock"}

VoteStoreFails(r) ==
    /\ reqs[r].pc \in StorageCalls
    /\ reqs' = [reqs EXCEPT ![r] = Respond(reqs[r], Failure(400, "StoreError"))]
    /\ UNCHANGED <<users, elections, votes, blocks, now, calls, queries, boot, mining>>

NextFault ==
    \/ Next
    \/ \E r \in ReqIds : VoteStoreFails(r)

SpecFault == Init /\ [][NextFault]_vars

(* C20: a castVote during which a store call failed is answered 500.       *)
C20_StoreFailureAnswers500 ==
    \A r \in ReqIds : (Finished(r) /\ Kind(r) = "StoreError") => Status(r) = 500

(***************************************************************************)
(* The ballot box under load and process death: eligible voters post votes *)
(* for the active election concurrently, and the server process may exit   *)
(* at any await of the handler, which ends every request in flight without *)
(* a response and without undoing what it has already written.             *)
(***************************************************************************)
NextBallot ==
    \/ \E r \in ReqIds, token \in BearerTokens : CastVote(r, token, ActiveElection, "candidate-1")
    \/ \E r \in ReqIds : VoteGetElection(r)
    \/ \E r \in ReqIds : VoteGetUserVote(r)
    \/ \E r \in ReqIds : VoteGetLatestBlock(r)
    \/ \E r \in ReqIds : VoteCreateVote(r)
    \/ \E r \in ReqIds : VoteCreateBlock(r)

Crashed(req) ==
    [IdleRequest EXCEPT !.pc = "crashed", !.token = req.token, !.electionId = req.electionId,
                        !.candidateId = req.candidateId]

Crash ==
    /\ \E r \in ReqIds : reqs[r].pc \in StorageCalls
    /\ reqs' = [r \in ReqIds |-> IF reqs[r].pc \in StorageCalls THEN Crashed(reqs[r]) ELSE reqs[r]]
    /\ UNCHANGED <<users, elections, votes, blocks, now, calls, queries, boot, mining>>

NextCrash ==
    \/ NextBallot
    \/ Crash

SpecCrash == InitTally /\ [][NextCrash]_vars

HasVote(r) == getUserVote(reqs[r].user[1].id, reqs[r].electionId) # None

Unsealed(v) == \A b \in BlockRows : \A k \in 1..Len(b.votes) : b.votes[k].id # v.id

Abandoned(v) ==
    /\ Unsealed(v)
    /\ \A r \in ReqIds : ~(reqs[r].pc = "createBlock" /\ reqs[r].vote = Some(v))

(* C21: once a Vote of (user, election) is stored, a castVote of that user *)
(* for that election that reaches the duplicate gate is answered           *)
(* DuplicateVote and writes nothing, also when the request that stored the *)
(* Vote died or failed before createBlock; and a Vote whose request is     *)
(* gone without a Block never gets a Block.                                *)
C21_StoredVoteBlocksLaterVotes ==
    [][ /\ \A r \in ReqIds :
              (reqs[r].pc = "getUserVote" /\ HasVote(r) /\ reqs'[r] # reqs[r] /\ reqs'[r].pc # "crashed")
                  => /\ reqs'[r].pc = "done"
                     /\ reqs'[r].response = Some(Failure(400, "DuplicateVote"))
                     /\ votes' = votes /\ blocks' = blocks
        /\ \A r \in ReqIds :
              (reqs[r].pc \in {"idle", "getElection"} /\ reqs'[r].pc \notin {"idle", "crashed"}
                 /\ reqs'[r].user # None
                 /\ getUserVote(reqs'[r].user[1].id, reqs'[r].electionId) # None)
                  => reqs'[r].pc \in {"getElection", "getUserVote", "done"}
        /\ \A i \in 1..Len(votes) : Abandoned(votes[i]) => Abandoned(votes[i])'
      ]_vars

(* A voter whose first request died between createVote and createBlock is *)
(* answered DuplicateVote by the next request; the Vote still has no Block. *)
C21_Witness ==
    \E r, q \in ReqIds :
        /\ reqs[q].pc = "crashed"
        /\ reqs[r].pc = "done" /\ reqs[r].response = Some(Failure(400, "DuplicateVote"))
        /\ reqs[r].token = reqs[q].token
        /\ \E i \in 1..Len(votes) :
              votes[i].userId = reqs[r].user[1].id /\ Abandoned(votes[i])

LatestBlockNumber ==
    IF Len(blocks) = 0 THEN 0
    ELSE CHOOSE n \in {b.blockNumber : b \in BlockRows} : \A b \in BlockRows : b.blockNumber <= n

Succeeds(r) ==
    /\ reqs[r].pc = "createBlock" /\ reqs'[r].pc = "done"
    /\ reqs'[r].response[1].status = 200

(* C22: with castVote requests served one after another, a successful      *)
(* castVote returns the latest block number before it plus 1 (1 on an      *)
(* empty chain), the block numbers after it are exactly 1..N, and the      *)
(* returned blockHash is the hash of the block it appended.                *)
C22_SequentialBlockNumbers ==
    [][\A r \in ReqIds :
          Succeeds(r) =>
              /\ reqs'[r].response[1].blockNumber = LatestBlockNumber + 1
              /\ Len(blocks') = Len(blocks) + 1
              /\ SubSeq(blocks', 1, Len(blocks)) = blocks
              /\ blocks'[Len(blocks')].blockNumber = LatestBlockNumber + 1
              /\ reqs'[r].response[1].blockHash = Some(blocks'[Len(blocks')].hash)
              /\ {blocks'[i].blockNumber : i \in 1..Len(blocks')} = 1..Len(blocks')
              /\ \A i \in 1..Len(blocks') : blocks'[i].blockNumber = i
      ]_vars

(* Two votes served one after another were answered with block numbers 1   *)
(* and 2 and the hashes of blocks 1 and 2.                                 *)
C22_Witness ==
    /\ Len(blocks) = 2
    /\ \E r, q \in ReqIds :
          /\ Finished(r) /\ Finished(q)
          /\ reqs[r].response[1] = VoteRecorded(blocks[1].hash, 1)
          /\ reqs[q].response[1] = VoteRecorded(blocks[2].hash, 2)

(***************************************************************************)
(* Attempts and retries: one registered user, in any state of enrolment,   *)
(* and callers who log in and present a face with right and wrong inputs,  *)
(* again and again.                                                        *)
(***************************************************************************)
NextRetry ==
    \/ \E k \in CallIds, username \in Usernames, password \in Passwords, code \in TotpCodes :
          Login(k, username, password, code)
    \/ \E k \in CallIds : LoginCompare(k)
    \/ \E k \in CallIds, username \in Usernames, d \in ProbeDescriptors : VerifyFace(k, username, d)

SpecRetry == InitLogin /\ [][NextRetry]_vars

VerifyFaceArrives(k) ==
    calls[k].pc \in {"idle", "done"} /\ calls'[k].op = "verify-face" /\ calls'[k] # calls[k]

Rejected(call) == call.pc = "done" /\ call.response[1].status = 401 /\ call.response[1].token = None

(* C23: every step of login and of verify-face leaves users, elections,    *)
(* votes and blocks unchanged, and an attempt with correct inputs succeeds *)
(* whatever was attempted before: a login of a known user reaches the      *)
(* password check and, with the right password and (where TOTP is on) the  *)
(* right code, is answered 200 with a token; a matching face on an enabled *)
(* row is answered 200 FaceVerified.                                       *)
C23_RejectedAttemptChangesNothing ==
    [][\A k \in CallIds :
          /\ (LoginArrives(k) \/ LoginCompares(k) \/ VerifyFaceArrives(k)) => StoreUnchanged
          /\ LoginArrives(k) =>
                IF getUserByUsername(calls'[k].username) = None THEN Rejected(calls'[k])
                ELSE calls'[k].pc = "compare"
          /\ LoginCompares(k) =>
                LET call == calls[k]
                    row == call.user[1]
                    correct == /\ bcryptCompare(call.password, row.password)
                               /\ (row.totpEnabled => CodeVerifies(call))
                IN  IF correct
                    THEN /\ calls'[k].pc = "done" /\ calls'[k].response[1].status = 200
                         /\ calls'[k].response[1].token = Some(Token(row.id))
                    ELSE Rejected(calls'[k])
          /\ VerifyFaceArrives(k) =>
                LET row == getUserByUsername(calls'[k].username)
                    matches == /\ row # None /\ row[1].faceEnabled /\ row[1].faceDescriptor # None
                               /\ isMatch(calls'[k].faceDescriptor[1], row[1].faceDescriptor[1])
                IN  IF matches
                    THEN /\ calls'[k].response[1].status = 200
                         /\ calls'[k].response[1].kind = "FaceVerified"
                    ELSE Rejected(calls'[k])
      ]_vars

(* One user's face was verified and a login of the same user was turned    *)
(* away for its TOTP code.                                                 *)
C23_Witness ==
    \E j, k \in CallIds :
        /\ calls[j].op = "verify-face" /\ calls[j].pc = "done"
        /\ calls[j].response[1].kind = "FaceVerified" /\ calls[j].faceDescriptor = Some(<<3, 4>>)
        /\ calls[k].op = "login" /\ Rejected(calls[k]) /\ calls[k].response[1].kind = "InvalidTotp"
        /\ calls[j].username = calls[k].username

(***************************************************************************)
(* The bearer gate: alice is registered and bob is not.  Requests to the   *)
(* set-up operations, the ballot and the results arrive without a token,   *)
(* with a token that jwt.verify refuses (forged or expired), with a signed *)
(* token of bob's id, and with alice's token, one request at a time.       *)
(***************************************************************************)
GateTokens == {None, Some(BadToken), Some(Token("u1")), Some(Token("u2"))}

Quiet ==
    /\ NoneInFlight
    /\ \A k \in CallIds : calls[k].pc \in {"idle", "done"}
    /\ \A q \in QueryIds : queries[q].pc \in {"idle", "done"}

NextGate ==
    \/ \E k \in CallIds, token \in GateTokens : Quiet /\ SetupTotp(k, token, "S1")
    \/ \E k \in CallIds : SetupTotpUpdate(k)
    \/ \E k \in CallIds, token \in GateTokens : Quiet /\ VerifyTotp(k, token, Some([totp |-> "S1"]))
    \/ \E k \in CallIds : VerifyTotpUpdate(k)
    \/ \E k \in CallIds, token \in GateTokens : Quiet /\ EnrollFace(k, token, EnrolledDescriptor)
    \/ \E k \in CallIds : EnrollFaceUpdate(k)
    \/ \E r \in ReqIds, token \in {Some(Token("u1")), Some(Token("u2"))} :
          Quiet /\ CastVote(r, token, ActiveElection, "candidate-1")
    \/ \E r \in ReqIds : VoteGetElection(r)
    \/ \E r \in ReqIds : VoteGetUserVote(r)
    \/ \E r \in ReqIds : VoteGetLatestBlock(r)
    \/ \E r \in ReqIds : VoteCreateVote(r)
    \/ \E r \in ReqIds : VoteCreateBlock(r)
    \/ \E q \in QueryIds, token \in {None, Some(Token("u1"))} : Quiet /\ GetResults(q, token, ActiveElection)
    \/ \E q \in QueryIds : ResultsGetElection(q)
    \/ \E q \in QueryIds : ResultsGetVotes(q)
    \/ \E q \in QueryIds : ResultsGetBlocks(q)

SpecGate == InitSetup /\ [][NextGate]_vars

(* What the claim says the gate answers to a token, None when it lets the  *)
(* request through.                                                        *)
GateRefusal(token) ==
    IF token = None THEN Some([status |-> 401, kind |-> "AccessTokenMissing"])
    ELSE IF ~token[1].verifies THEN Some([status |-> 403, kind |-> "TokenInvalidOrExpired"])
    ELSE IF token[1].userId \notin DOMAIN users THEN Some([status |-> 401, kind |-> "InvalidToken"])
    ELSE None

RefusedWith(slot, refusal) ==
    /\ slot.pc = "done"
    /\ slot.response[1].status = refusal.status
    /\ slot.response[1].kind = refusal.kind

GateKinds == {"AccessTokenMissing", "TokenInvalidOrExpired", "InvalidToken"}

GateHolds ==
    /\ \A token \in GateTokens :
          LET refusal == GateRefusal(token)
              arrivals == {SetupTotpEnter(IdleCall, token, "S1"),
                           VerifyTotpEnter(IdleCall, token, Some([totp |-> "S1"])),
                           EnrollFaceEnter(IdleCall, token, EnrolledDescriptor)}
              ballot == VoteEnter(IdleRequest, token, ActiveElection, "candidate-1")
              query == ResultsEnter(IdleQuery, token, ActiveElection)
          IN  IF refusal # None
              THEN /\ \A call \in arrivals : RefusedWith(call, refusal[1]) /\ call.user = None
                   /\ RefusedWith(ballot, refusal[1]) /\ ballot.user = None
                   /\ RefusedWith(query, refusal[1])
              ELSE /\ \A call \in arrivals :
                         IF call.pc = "done" THEN call.response[1].kind \notin GateKinds
                         ELSE call.user = Some(users[token[1].userId])
                   /\ ballot.user = Some(users[token[1].userId])
                   /\ (ballot.pc = "done" => ballot.response[1].kind \notin GateKinds)
                   /\ query.pc = "getElection"
    /\ \A k \in CallIds : calls[k].pc = "updateUser" =>
          (calls[k].user # None /\ calls[k].user[1].id \in DOMAIN users)
    /\ \A r \in ReqIds :
          /\ reqs[r].pc \in StorageCalls =>
                (GateRefusal(reqs[r].token) = None /\ reqs[r].user # None)
          /\ (reqs[r].pc = "done" /\ GateRefusal(reqs[r].token) # None) =>
                RefusedWith(reqs[r], GateRefusal(reqs[r].token)[1])

GateRefuses ==
    \/ \E k \in CallIds : calls'[k] # calls[k] /\ calls'[k].pc = "done"
                            /\ calls'[k].response[1].kind \in GateKinds
    \/ \E r \in ReqIds : reqs'[r] # reqs[r] /\ reqs'[r].pc = "done"
                            /\ reqs'[r].response[1].kind \in GateKinds
    \/ \E q \in QueryIds : queries'[q] # queries[q] /\ queries'[q].pc = "done"
                            /\ queries'[q].response[1].kind \in GateKinds

(* C24: a bearer-authenticated operation runs its handler only for a token *)
(* that verifies and whose user id has a row; without a token it answers   *)
(* 401, to a token that does not verify 403, to a token of a user without  *)
(* a row 401, and the step that refuses leaves the store unchanged.        *)
C24_BearerGate == []GateHolds /\ [][GateRefuses => StoreUnchanged]_vars

(* A vote with a signed token of an unregistered id was answered 401, a    *)
(* set-up call was refused at the gate, a results request without a token  *)
(* was answered 401, and alice's own set-up request wrote her secret.      *)
C24_Witness ==
    /\ \E r \in ReqIds : reqs[r].token = Some(Token("u2")) /\ RefusedWith(reqs[r], [status |-> 401, kind |-> "InvalidToken"])
    /\ \E k \in CallIds : RefusedWith(calls[k], [status |-> 403, kind |-> "TokenInvalidOrExpired"])
    /\ \E q \in QueryIds : RefusedWith(queries[q], [status |-> 401, kind |-> "AccessTokenMissing"])
    /\ users["u1"].totpSecret = Some("S1")

(***************************************************************************)
(* The ballot box under load, audited: eligible voters post votes for the  *)
(* active election concurrently and a results request for that election    *)
(* reads the store between any two steps.                                  *)
(***************************************************************************)
NextAudit ==
    \/ NextBallot
    \/ \E q \in QueryIds : GetResults(q, Some(Token("u1")), ActiveElection)
    \/ \E q \in QueryIds : ResultsGetElection(q)
    \/ \E q \in QueryIds : ResultsGetVotes(q)
    \/ \E q \in QueryIds : ResultsGetBlocks(q)

SpecAudit == InitTally /\ [][NextAudit]_vars

(* The response of query q describes the store as it is now.               *)
ReportsCurrentStore(q) ==
    /\ queries[q].pc = "done" /\ queries[q].response[1].status = 200
    /\ queries[q].electionId = ActiveElection
    /\ queries[q].response[1].totalVotes = Len(votes)
    /\ queries[q].response[1].lastBlockHash = LastBlockHash(getBlocks)

(* C25: with no castVote in flight and every vote cast for election E, the *)
(* results of E report totalBlocks equal to totalVotes.                    *)
C25_TotalBlocksEqualsTotalVotes ==
    \A q \in QueryIds :
        (Quiescent /\ ReportsCurrentStore(q) /\ \A v \in VoteRows : v.electionId = ActiveElection)
            => queries[q].response[1].totalBlocks = queries[q].response[1].totalVotes

(***************************************************************************)
(* Start-up: loading the storage module runs initializeIfEmpty, which is   *)
(* not awaited, so requests are served while it runs.  The process may     *)
(* exit and start again at any time; a start finds the store as the last   *)
(* run left it, which may hold elections created outside this program.     *)
(***************************************************************************)
(* The election initializeIfEmpty creates; createElection draws its id.    *)
SampleElection(id) == [id |-> id, isActive |-> TRUE, candidates |-> Candidates]

(* randomUUID(): an id no stored election has.                             *)
FreshElectionId == IF ActiveElection \notin DOMAIN elections THEN ActiveElection ELSE InactiveElection

(* Mutant of SeedNeeded: the store is not looked at.                        *)
SeedAlways(existingElections) == TRUE

(* existingElections.length === 0                                          *)
SeedNeeded(existingElections) == DOMAIN existingElections = {}

BootGetElections ==
    /\ boot = "getElections"
    /\ boot' = IF SeedNeeded(elections) THEN "createElection" ELSE "ready"
    /\ UNCHANGED <<users, elections, votes, blocks, now, reqs, calls, queries, mining>>

BootCreateElection ==
    /\ boot = "createElection"
    /\ FreshElectionId \notin DOMAIN elections
    /\ elections' = [e \in DOMAIN elections \cup {FreshElectionId} |->
                        IF e \in DOMAIN elections THEN elections[e] ELSE SampleElection(e)]
    /\ boot' = "ready"
    /\ UNCHANGED <<users, votes, blocks, now, reqs, calls, queries, mining>>

Restart ==
    /\ boot' = "getElections"
    /\ reqs' = [r \in ReqIds |-> IF reqs[r].pc \in StorageCalls THEN Crashed(reqs[r]) ELSE reqs[r]]
    /\ UNCHANGED <<users, elections, votes, blocks, now, calls, queries, mining>>

InitBoot ==
    /\ users = [u \in UserIds |-> EligibleRow(u)]
    /\ elections \in {<<>>, SeedElections}
    /\ votes = <<>>
    /\ blocks = <<>>
    /\ now = 0
    /\ reqs = [r \in ReqIds |-> IdleRequest]
    /\ calls = [k \in CallIds |-> IdleCall]
    /\ queries = [q \in QueryIds |-> IdleQuery]
    /\ boot = "getElections"
    /\ mining = NotMining

NextBoot ==
    \/ BootGetElections
    \/ BootCreateElection
    \/ Restart
    \/ NextBallot

SpecBoot == InitBoot /\ [][NextBoot]_vars

(* C26: no step changes or removes a stored election; a run of the         *)
(* initialization that finds the store empty adds exactly one election,    *)
(* the active sample, and a run that finds it non-empty adds none.         *)
C26_ElectionsImmutable ==
    [][ /\ \A e \in DOMAIN elections : e \in DOMAIN elections' /\ elections'[e] = elections[e]
        /\ elections' # elections =>
              /\ boot = "createElection" /\ DOMAIN elections = {}
              /\ \E id \in DOMAIN elections' :
                    DOMAIN elections' = {id} /\ elections'[id] = SampleElection(id)
        /\ (boot = "getElections" /\ boot' = "createElection") => DOMAIN elections = {}
        /\ (boot = "getElections" /\ boot' = "ready") => (DOMAIN elections # {} /\ elections' = elections)
        /\ (boot = "createElection" /\ boot' = "ready") => elections' # elections
      ]_vars

(* The sample election was created on an empty store and voted in; the     *)
(* process then died under a request and started again, and the store      *)
(* still holds that one election.                                          *)
C26_Witness ==
    /\ boot = "ready"
    /\ DOMAIN elections = {ActiveElection} /\ elections[ActiveElection] = SampleElection(ActiveElection)
    /\ Len(votes) >= 1
    /\ \E r \in ReqIds : reqs[r].pc = "crashed" /\ reqs[r].token = Some(Token(votes[1].userId))

(***************************************************************************)
(* mineBlock on its own: a call with a payload, a previous hash and a      *)
(* difficulty, run either as the handler sees it, in one synchronous step, *)
(* or one iteration of its do-while loop at a time.                        *)
(***************************************************************************)
(* let nonce = 0; let hash                                                 *)
MineCall(data, previousHash, difficulty) ==
    [pc |-> "loop", data |-> data, previousHash |-> previousHash, difficulty |-> difficulty,
     nonce |-> 0, hash |-> None]

(* Mutant of Trial: the counter is not incremented.                         *)
TrialKeepsNonce(frame) ==
    LET n == frame.nonce
        hash == calculateHash(Serialize(frame.data, frame.previousHash, n))
    IN  [frame EXCEPT !.nonce = n, !.hash = Some(hash),
                      !.pc = IF Substring(hash, frame.difficulty) # Target(frame.difficulty)
                             THEN "loop" ELSE "returned"]

(* One pass of do { nonce++; hash = ... } while (...), then return.        *)
Trial(frame) ==
    LET n == frame.nonce + 1
        hash == calculateHash(Serialize(frame.data, frame.previousHash, n))
    IN  [frame EXCEPT !.nonce = n, !.hash = Some(hash),
                      !.pc = IF Substring(hash, frame.difficulty) # Target(frame.difficulty)
                             THEN "loop" ELSE "returned"]

MineTrial ==
    /\ mining.pc = "loop"
    /\ mining' = Trial(mining)
    /\ UNCHANGED <<users, elections, votes, blocks, now, reqs, calls, queries, boot>>

Seal ==
    /\ mining.pc = "loop" /\ mining.nonce = 0
    /\ LET mined == mineBlock(mining.data, mining.previousHash, mining.difficulty)
       IN  mining' = [mining EXCEPT !.pc = "returned", !.nonce = mined.nonce, !.hash = Some(mined.hash)]
    /\ UNCHANGED <<users, elections, votes, blocks, now, reqs, calls, queries, boot>>

InitMine ==
    /\ users = [u \in UserIds |-> EligibleRow(u)]
    /\ elections = SeedElections
    /\ votes = <<>>
    /\ blocks = <<>>
    /\ now = 0
    /\ reqs = [r \in ReqIds |-> IdleRequest]
    /\ calls = [k \in CallIds |-> IdleCall]
    /\ queries = [q \in QueryIds |-> IdleQuery]
    /\ boot = "ready"
    /\ mining \in {MineCall([userId |-> u, electionId |-> e, candidateId |-> c, timestamp |-> t],
                              previousHash, difficulty) :
                      u \in UserIds, e \in {ActiveElection, InactiveElection}, c \in Candidates,
                      t \in 0..MaxTime, previousHash \in {GenesisPreviousHash, ClosedBlock.hash},
                      difficulty \in 0..DefaultDifficulty}

NextMine ==
    \/ MineTrial
    \/ Seal

SpecMine == InitMine /\ [][NextMine]_vars

(* The fingerprint over {payload, previousHash, nonce n} of the call in    *)
(* progress, and whether its first `difficulty` characters are all '0'.    *)
FingerprintAt(n) == calculateHash(Serialize(mining.data, mining.previousHash, n))

MeetsDifficulty(n) ==
    /\ Len(FingerprintAt(n).hex) >= mining.difficulty
    /\ \A i \in 1..mining.difficulty : FingerprintAt(n).hex[i] = 0

(* C27: mineBlock tries the nonces 1, 2, 3, ... in order and returns the   *)
(* least nonce >= 1 whose fingerprint has `difficulty` leading zeros,      *)
(* with exactly that fingerprint; nonce 0 is never tried or returned, and  *)
(* with difficulty 0 the nonce is 1.                                       *)
C27_LeastNonce ==
    /\ mining.pc = "loop" =>
          /\ mining.nonce >= 0
          /\ \A n \in 1..mining.nonce : ~MeetsDifficulty(n)
          /\ mining.nonce >= 1 => mining.hash = Some(FingerprintAt(mining.nonce))
    /\ mining.pc = "returned" =>
          /\ mining.nonce >= 1
          /\ MeetsDifficulty(mining.nonce)
          /\ \A n \in 1..(mining.nonce - 1) : ~MeetsDifficulty(n)
          /\ mining.hash = Some(FingerprintAt(mining.nonce))
          /\ mining.difficulty = 0 => mining.nonce = 1

(* A call with the default difficulty returned a nonce above 1.            *)
C27_Witness ==
    mining.pc = "returned" /\ mining.difficulty = DefaultDifficulty /\ mining.nonce > 1

(* mineBlock runs on the one thread of the process: once called, its loop  *)
(* keeps taking passes.                                                    *)
SpecMineFair == InitMine /\ [][NextMine]_vars /\ WF_vars(MineTrial)

(* C28: a call of mineBlock returns, and returning {hash, nonce} is its    *)
(* only outcome.                                                           *)
C28_MineBlockTerminates ==
    /\ (mining.pc = "loop") ~> (mining.pc = "returned")
    /\ [](mining.pc \in {"loop", "returned"})
    /\ [](mining.pc = "returned" => (mining.hash # None /\ mining.nonce \in Nat))

(* A call with difficulty 1 returned after more passes than one digit has  *)
(* values.                                                                 *)
C28_Witness ==
    mining.pc = "returned" /\ mining.difficulty = 1 /\ mining.nonce > HexBase

(***************************************************************************)
(* The ballot box with a store that answers: every awaited storage call of *)
(* a request in flight returns or throws, unless the process dies first.   *)
(***************************************************************************)
VoteStep(r) ==
    \/ VoteGetElection(r)
    \/ VoteGetUserVote(r)
    \/ VoteGetLatestBlock(r)
    \/ VoteCreateVote(r)
    \/ VoteCreateBlock(r)

SpecCrashFair == InitTally /\ [][NextCrash]_vars /\ \A r \in ReqIds : WF_vars(VoteStep(r))

Answered(r) == reqs[r].response # None

(* C29: a castVote in flight ends in a response unless the process dies;   *)
(* a response, once out, is the request's only one; and a 200 is out only  *)
(* when the request's Vote and Block are both stored.                      *)
C29_OneResponsePerRequest ==
    /\ \A r \in ReqIds : (reqs[r].pc \in StorageCalls) ~> (Answered(r) \/ reqs[r].pc = "crashed")
    /\ [](\A r \in ReqIds : Answered(r) <=> reqs[r].pc = "done")
    /\ [][\A r \in ReqIds : Answered(r) => reqs'[r] = reqs[r]]_vars
    /\ [](\A r \in ReqIds :
              (Answered(r) /\ Status(r) = 200) => (PersistedVoteOf(r) # {} /\ PersistedBlockOf(r) # {}))

(* One request was answered 200 with its Vote and Block stored, another    *)
(* was refused by createBlock and answered 400, and none is in flight.     *)
C29_Witness ==
    /\ \A r \in ReqIds : Answered(r)
    /\ \E r, q \in ReqIds :
          /\ Status(r) = 200 /\ PersistedBlockOf(r) # {}
          /\ Status(q) = 400 /\ Kind(q) = "StoreError" /\ PersistedVoteOf(q) # {}

(***************************************************************************)
(* One user, many tokens: alice, as registration left her, holds a token   *)
(* from each moment of issue.  She presents any of them with her set-up    *)
(* requests and her votes, one request at a time, while time passes and    *)
(* her factors become enabled.                                             *)
(***************************************************************************)
TokensOf(u) == {Some(TokenIssuedAt(u, t)) : t \in 0..MaxTime}

NextTokens ==
    \/ \E k \in CallIds, token \in TokensOf("u1") : Quiet /\ SetupTotp(k, token, "S1")
    \/ \E k \in CallIds : SetupTotpUpdate(k)
    \/ \E k \in CallIds, token \in TokensOf("u1") : Quiet /\ VerifyTotp(k, token, Some([totp |-> "S1"]))
    \/ \E k \in CallIds : VerifyTotpUpdate(k)
    \/ \E k \in CallIds, token \in TokensOf("u1") : Quiet /\ EnrollFace(k, token, EnrolledDescriptor)
    \/ \E k \in CallIds : EnrollFaceUpdate(k)
    \/ \E r \in ReqIds, token \in TokensOf("u1") :
          Quiet /\ CastVote(r, token, ActiveElection, "candidate-1")
    \/ \E r \in ReqIds : VoteGetElection(r)
    \/ \E r \in ReqIds : VoteGetUserVote(r)
    \/ \E r \in ReqIds : VoteGetLatestBlock(r)
    \/ \E r \in ReqIds : VoteCreateVote(r)
    \/ \E r \in ReqIds : VoteCreateBlock(r)
    \/ Tick

SpecTokens == InitSetup /\ [][NextTokens]_vars

(* The request as the handler holds it, without the header it came with.   *)
Unsigned(req) == [req EXCEPT !.token = None]

(* C30: in every store state, two valid tokens of one user get the same    *)
(* treatment: the gate binds the same user row, and castVote and the       *)
(* set-up operations arrive at the same response or the same handler       *)
(* position with the same locals, from which the store change follows.     *)
C30_TokenMattersOnlyByUserId ==
    \A u \in DOMAIN users : \A t1, t2 \in TokensOf(u) :
        t1[1].iat < t2[1].iat =>
        /\ authenticateToken(t1) = authenticateToken(t2)
        /\ SetupTotpEnter(IdleCall, t1, "S1") = SetupTotpEnter(IdleCall, t2, "S1")
        /\ \A code \in {None, Some([totp |-> "S1"])} :
              VerifyTotpEnter(IdleCall, t1, code) = VerifyTotpEnter(IdleCall, t2, code)
        /\ EnrollFaceEnter(IdleCall, t1, EnrolledDescriptor) = EnrollFaceEnter(IdleCall, t2, EnrolledDescriptor)
        /\ \A e \in {ActiveElection, EmptyId} :
              Unsigned(VoteEnter(IdleRequest, t1, e, "candidate-1"))
                 = Unsigned(VoteEnter(IdleRequest, t2, e, "candidate-1"))

(* After alice's factors were enabled a token issued at time 1 cast her    *)
(* vote, and a vote with her token issued at time 0, before any factor was *)
(* enabled, was answered DuplicateVote.                                    *)
C30_Witness ==
    \E r, q \in ReqIds :
        /\ Finished(r) /\ Finished(q)
        /\ reqs[r].token = Some(TokenIssuedAt("u1", 1)) /\ Status(r) = 200
        /\ reqs[q].token = Some(TokenIssuedAt("u1", 0)) /\ Kind(q) = "DuplicateVote"

(***************************************************************************)
(* Write-ins: eligible voters vote in the active election, one request     *)
(* after another, for a listed candidate or for an id that is not on the   *)
(* election's list, and a results request reads the store between any two  *)
(* steps.                                                                  *)
(***************************************************************************)
NextWriteIn ==
    \/ \E r \in ReqIds, token \in BearerTokens, c \in {"candidate-1", "candidate-9"} :
          NoneInFlight /\ CastVote(r, token, ActiveElection, c)
    \/ \E r \in ReqIds : VoteStep(r)
    \/ \E q \in QueryIds : GetResults(q, Some(Token("u1")), ActiveElection)
    \/ \E q \in QueryIds : ResultsGetElection(q)
    \/ \E q \in QueryIds : ResultsGetVotes(q)
    \/ \E q \in QueryIds : ResultsGetBlocks(q)

SpecWriteIn == InitTally /\ [][NextWriteIn]_vars

Unlisted(r) ==
    /\ reqs[r].pc # "idle" /\ reqs[r].user # None
    /\ getElection(reqs[r].electionId) # None
    /\ reqs[r].candidateId \notin getElection(reqs[r].electionId)[1].candidates

NextFace ==
    \/ NextRetry
    \/ \E k \in CallIds, username \in Usernames : VerifyFace(k, username, <<0>>)

SpecFace == InitLogin /\ [][NextFace]_vars

FaceBelowThreshold(call) ==
    LET row == getUserByUsername(call.username)
    IN  /\ row # None /\ row[1].faceEnabled /\ row[1].faceDescriptor # None
        /\ DistanceSquared(call.faceDescriptor[1], row[1].faceDescriptor[1]) < ThresholdSquared

(* C32 as stated: verify-face answers with a token exactly when the named  *)
(* user exists, has face recognition enabled with a stored descriptor, and *)
(* the distance is strictly below the threshold, and every other answer is *)
(* a 401 without a token.                                                  *)
C32_VerifyFaceTokenOr401 ==
    [][\A k \in CallIds :
          VerifyFaceArrives(k) =>
              LET answer == calls'[k].response[1]
              IN  /\ calls'[k].pc = "done"
                  /\ answer.token # None <=> FaceBelowThreshold(calls'[k])
                  /\ answer.token = None => answer.status = 401
      ]_vars

(* C32, amended: for a body the schema accepts, verify-face answers 200    *)
(* with a token of the named user exactly when that user exists, has face  *)
(* recognition enabled with a stored descriptor, and the distance is       *)
(* strictly below the threshold, and otherwise 401 without a token; a body *)
(* the schema refuses is answered 400 without a token.                     *)
C32_VerifyFaceIssuesTokenIff ==
    [][\A k \in CallIds :
          VerifyFaceArrives(k) =>
              LET answer == calls'[k].response[1]
                  accepted == faceVerifySchemaAccepts(calls'[k].username, calls'[k].faceDescriptor[1])
              IN  /\ calls'[k].pc = "done"
                  /\ answer.token # None <=> (accepted /\ FaceBelowThreshold(calls'[k]))
                  /\ answer.token # None =>
                        /\ answer.status = 200
                        /\ answer.token[1].userId = getUserByUsername(calls'[k].username)[1].id
                  /\ (answer.token = None /\ accepted) => answer.status = 401
                  /\ ~accepted => (answer.status = 400 /\ answer.kind = "ValidationError")
      ]_vars

(* A descriptor at exactly the threshold distance from the stored one was  *)
(* answered 401 FaceMismatch, and a descriptor too short for the schema    *)
(* was answered 400, both without a token.                                 *)
C32_Witness ==
    \E j, k \in CallIds :
        /\ calls[k].op = "verify-face" /\ calls[k].pc = "done"
        /\ calls[k].response[1].kind = "FaceMismatch" /\ calls[k].response[1].token = None
        /\ getUserByUsername(calls[k].username) # None
        /\ DistanceSquared(calls[k].faceDescriptor[1], getUserByUsername(calls[k].username)[1].faceDescriptor[1])
              = ThresholdSquared
        /\ calls[j].op = "verify-face" /\ calls[j].pc = "done"
        /\ calls[j].response[1].status = 400 /\ calls[j].response[1].token = None

(* C33: once a user's TOTP secret is written, no step replaces it with a   *)
(* different secret.                                                       *)
C33_TotpSecretSetOnce ==
    [][\A u \in DOMAIN users :
          users[u].totpSecret # None => users'[u].totpSecret = users[u].totpSecret]_vars

(* C34: getLatestBlock returns the stored block with the highest number,   *)
(* or none when no block is stored; and the lastBlockHash Get results      *)
(* reports is the hash of the block getLatestBlock returns in the state    *)
(* Get results reads, null exactly when there is no block.                 *)
C34_LatestBlockIsHighest ==
    /\ [](/\ getLatestBlock = None <=> Len(blocks) = 0
          /\ getLatestBlock # None =>
                /\ getLatestBlock[1] \in BlockRows
                /\ \A b \in BlockRows : b.blockNumber <= getLatestBlock[1].blockNumber
          /\ LastBlockHash(getBlocks)
                = IF getLatestBlock = None THEN None ELSE Some(getLatestBlock[1].hash))
    /\ [][\A q \in QueryIds :
             (queries[q].pc = "getBlocks" /\ queries'[q].pc = "done") =>
                 /\ queries'[q].response[1].lastBlockHash
                       = IF getLatestBlock = None THEN None ELSE Some(getLatestBlock[1].hash)
                 /\ queries'[q].response[1].lastBlockHash = None <=> Len(blocks) = 0]_vars

(* With two blocks stored, results reported the hash of block 2.           *)
C34_Witness ==
    /\ Len(blocks) = 2
    /\ \E q \in QueryIds :
          /\ queries[q].pc = "done" /\ queries[q].response[1].status = 200
          /\ \E b \in BlockRows : b.blockNumber = 2 /\ queries[q].response[1].lastBlockHash = Some(b.hash)

(* C35: in every reachable state a user with totpEnabled has a TOTP        *)
(* secret, so login's code check is not skipped for such a user: a login   *)
(* that reads a TOTP-enabled row issues a token only with a code that      *)
(* verifies against the row's secret.                                      *)
C35_EnabledTotpHasSecret ==
    /\ [](\A u \in DOMAIN users : users[u].totpEnabled => users[u].totpSecret # None)
    /\ [][\A k \in CallIds :
             (LoginCompares(k) /\ calls[k].user[1].totpEnabled /\ calls'[k].response[1].token # None)
                 => (calls[k].user[1].totpSecret # None /\ CodeVerifies(calls[k]))]_vars

(* TOTP was enabled over the secret set up in this run, and a login with   *)
(* that secret's code was issued a token.                                  *)
C35_Witness ==
    /\ users["u1"].totpEnabled /\ users["u1"].totpSecret = Some("S2")
    /\ \E k \in CallIds :
          /\ calls[k].op = "login" /\ calls[k].pc = "done"
          /\ calls[k].totpCode = Some([totp |-> "S2"]) /\ calls[k].response[1].token # None

(* The vote request r arrives in this step.                                *)
VoteArrives(r) == reqs[r].pc = "idle" /\ reqs'[r].pc # "idle"

FactorsEnabled(row) == row.totpEnabled /\ row.faceEnabled

(* C36: factor enablement is monotone: no step sets a user's totpEnabled   *)
(* or faceEnabled from true back to false, and a castVote arriving with    *)
(* the token of a user whose two factors are enabled is never answered     *)
(* TotpRequired or FaceRequired.                                           *)
C36_FactorsStayEnabled ==
    /\ [][\A u \in DOMAIN users :
             /\ u \in DOMAIN users'
             /\ users[u].totpEnabled => users'[u].totpEnabled
             /\ users[u].faceEnabled => users'[u].faceEnabled]_vars
    /\ [][\A r \in ReqIds :
             (/\ VoteArrives(r)
              /\ reqs'[r].token # None
              /\ reqs'[r].token[1].verifies
              /\ reqs'[r].token[1].userId \in DOMAIN users
              /\ FactorsEnabled(users[reqs'[r].token[1].userId]))
                 => ~(reqs'[r].pc = "done" /\ reqs'[r].response[1].kind \in {"TotpRequired", "FaceRequired"})]_vars

(* alice was turned away for a missing factor, enabled both, and her next  *)
(* vote went past the factor gates to success.                             *)
C36_Witness ==
    /\ FactorsEnabled(users["u1"])
    /\ Finished(1) /\ Kind(1) = "FaceRequired"
    /\ Finished(2) /\ Status(2) = 200 /\ reqs[2].user[1].id = "u1"

(* Requests r and q were sent by two different authenticated users.        *)
DifferentVoters(r, q) ==
    /\ r # q
    /\ reqs[r].user # None /\ reqs[q].user # None
    /\ reqs[r].user[1].id # reqs[q].user[1].id

(* C37: two castVote requests by two different eligible users for the      *)
(* active election, neither having voted before, both complete with 200,   *)
(* each with its own stored Vote and its own stored Block, however their   *)
(* steps interleave.                                                       *)
C37_ConcurrentVotersBothSucceed ==
    \A r, q \in ReqIds :
        (DifferentVoters(r, q) /\ Finished(r) /\ Finished(q)) =>
            /\ Status(r) = 200 /\ Status(q) = 200
            /\ PersistedVoteOf(r) # {} /\ PersistedBlockOf(r) # {}
            /\ PersistedVoteOf(q) # {} /\ PersistedBlockOf(q) # {}
            /\ PersistedBlockOf(r) # PersistedBlockOf(q)

(***************************************************************************)
(* Elections with dates: the two seeded rows carry start_date and          *)
(* end_date, any two moments of the clock, in either order with respect    *)
(* to the current time.  Eligible users vote in either election, one       *)
(* request at a time, while time passes.                                   *)
(***************************************************************************)
InitDated ==
    /\ users = [u \in UserIds |-> EligibleRow(u)]
    /\ \E dates \in [DOMAIN SeedElections -> (0..MaxTime) \X (0..MaxTime)] :
          elections = [e \in DOMAIN SeedElections |->
                          [id |-> e, isActive |-> SeedElections[e].isActive,
                           candidates |-> SeedElections[e].candidates,
                           startDate |-> dates[e][1], endDate |-> dates[e][2]]]
    /\ votes = <<>>
    /\ blocks = <<>>
    /\ now = 0
    /\ reqs = [r \in ReqIds |-> IdleRequest]
    /\ calls = [k \in CallIds |-> IdleCall]
    /\ queries = [q \in QueryIds |-> IdleQuery]
    /\ boot = "ready"
    /\ mining = NotMining

NextDated ==
    \/ \E r \in ReqIds, u \in UserIds, e \in DOMAIN SeedElections :
          NoneInFlight /\ CastVote(r, Some(Token(u)), e, "candidate-1")
    \/ \E r \in ReqIds : VoteStep(r)
    \/ Tick

SpecDated == InitDated /\ [][NextDated]_vars

(* The current time is outside the election's window.                      *)
OutsideWindow(election) == now < election.startDate \/ now > election.endDate

(* Request r's getElection returns in this step.                           *)
GetElectionReturns(r) == reqs[r].pc = "getElection" /\ reqs'[r].pc # "getElection"

(* C38: castVote's activity gate looks at isActive alone: when getElection *)
(* returns a row with isActive true the request goes on to the             *)
(* duplicate-vote check, be the current time before start_date or after    *)
(* end_date, and when it returns a row with isActive false the request is  *)
(* answered 400 ElectionInactive, whatever the dates; so every stored vote *)
(* is for an election with isActive true and every ElectionInactive answer  *)
(* is for one with isActive false.                                         *)
C38_ActivityGateIgnoresDates ==
    /\ [][\A r \in ReqIds :
             (GetElectionReturns(r) /\ reqs[r].electionId \in DOMAIN elections) =>
                 IF elections[reqs[r].electionId].isActive
                 THEN reqs'[r].pc = "getUserVote"
                 ELSE /\ reqs'[r].pc = "done"
                      /\ reqs'[r].response[1].status = 400
                      /\ reqs'[r].response[1].kind = "ElectionInactive"]_vars
    /\ [](\A r \in ReqIds :
             (Finished(r) /\ reqs[r].electionId \in DOMAIN elections) =>
                 /\ Status(r) = 200 => elections[reqs[r].electionId].isActive
                 /\ Kind(r) = "ElectionInactive" => ~elections[reqs[r].electionId].isActive)

(* A vote was recorded in an active election that has not started yet,     *)
(* and a vote was refused in an inactive election whose window holds the   *)
(* current time.                                                           *)
C38_Witness ==
    \E r, q \in ReqIds :
        /\ Finished(r) /\ Status(r) = 200 /\ PersistedVoteOf(r) # {}
        /\ now < elections[reqs[r].electionId].startDate
        /\ Finished(q) /\ Kind(q) = "ElectionInactive"
        /\ reqs[q].electionId \in DOMAIN elections
        /\ ~OutsideWindow(elections[reqs[q].electionId])

====
